---- MODULE Spec2Model ----
(***************************************************************************)
(* Spark Configuration Hub operator: the reconciliation / status engine.   *)
(*                                                                         *)
(* Two drafts of the operator live in the repository and both are modelled *)
(*   - the event-handler draft (events/*.py, managers/*.py, workload.py):  *)
(*     specification Spec;                                                 *)
(*   - the single-file draft (charm.py, config.py, models.py):             *)
(*     specification SpecCharm.                                            *)
(* SpecWorkload calls the operations of the workload in any order and      *)
(* SpecProbes the probes of the boundaries the status is computed from.    *)
(* SpecProvider runs the hooks of the service-account relations, and       *)
(* SpecProviderLive the same with the hooks Juju owes a unit delivered;    *)
(* SpecSecrets runs the monitor of the service accounts beside the         *)
(* handlers of the S3 relation.  SpecUnits runs the same hooks for a       *)
(* requirer that is scaled and that changes what it asks for, and          *)
(* SpecPushgateway the signals of the push-gateway relation.               *)
(*                                                                         *)
(* Text is modelled as a sequence of tokens.  A token is an atomic piece   *)
(* of text that holds neither "=" nor a line break unless it is exactly    *)
(* that character; endpoints are spelled character by character, so that   *)
(* startswith and substring tests are computed and not assumed.            *)
(***************************************************************************)
EXTENDS Naturals, Sequences, FiniteSets

VARIABLES
    s3rel,          \* data of the s3-credentials relation, or NoRel
    can_connect,    \* Pebble answers (container.can_connect())
    trusted,        \* the cluster-wide list of service accounts is allowed
    s3_ok,          \* list_buckets succeeds with the related credentials
    leader,         \* unit.is_leader()
    workload,       \* container state: service, files, plan
    unit_status,    \* charm.unit.status (event-handler draft)
    app_status,     \* charm.app.status  (event-handler draft)
    last,           \* the last signal handled, how it ended, what it did
    charm_status,   \* unit.status (single-file draft)
    conf_file,      \* contents of CONF_FILE_PATH (single-file draft)
    pid,            \* peer databag key "pid", 0 when unset (single-file draft)
    procs,          \* monitor processes alive (single-file draft)
    charm_last,     \* last signal handled by the single-file draft
    probe,          \* the last probe of a boundary and what it gave its caller
    relations,      \* the service-account relations: both application databags
    accounts,       \* the service accounts of the cluster that spark8t manages
    secrets,        \* the secrets of the cluster
    watch,          \* the watch events the monitor has still to take
    sa_last         \* the last step on the service accounts and how it ended

vars == <<s3rel, can_connect, trusted, s3_ok, leader, workload, unit_status,
          app_status, last, charm_status, conf_file, pid, procs, charm_last, probe,
          relations, accounts, secrets, watch, sa_last>>

hubVars == <<leader, workload, unit_status, app_status, last>>
charmVars == <<charm_status, conf_file, pid, procs, charm_last>>

saVars == <<relations, accounts, secrets, watch, sa_last>>

\* what a step that starts or stops the monitor leaves alone
restVars == <<relations, accounts, secrets, sa_last>>

-----------------------------------------------------------------------------
(* Text *)

\* Python's None where a text may stand: the one text no input spells
None == <<"<None>">>

\* `not x` for a text or None
Falsy(x) == x = None \/ x = <<>>

\* no s3-credentials relation: the S3ConnectionInfo | None that is None
NoRel == [absent |-> TRUE]

EQ == "="

NL == "\n"

\* str.startswith
StartsWith(text, prefix) ==
    /\ Len(text) >= Len(prefix)
    /\ SubSeq(text, 1, Len(prefix)) = prefix

\* the `in` operator on str
Contains(text, sub) ==
    \E i \in 1..(Len(text) + 1) :
        /\ i + Len(sub) - 1 <= Len(text)
        /\ SubSeq(text, i, i + Len(sub) - 1) = sub

\* str.join
RECURSIVE Join(_, _)
Join(texts, sep) ==
    IF texts = <<>> THEN <<>>
    ELSE IF Len(texts) = 1 THEN texts[1]
    ELSE texts[1] \o sep \o Join(Tail(texts), sep)

\* str.split(sep) for a one-token separator: the pieces between separators
RECURSIVE SplitFrom(_, _, _)
SplitFrom(text, sep, cur) ==
    IF text = <<>> THEN <<cur>>
    ELSE IF Head(text) = sep THEN <<cur>> \o SplitFrom(Tail(text), sep, <<>>)
    ELSE SplitFrom(Tail(text), sep, Append(cur, Head(text)))

Split(text, sep) == SplitFrom(text, sep, <<>>)

\* the lines of a file's text, as the consumer of the file reads them
Lines(text) == IF text = <<>> THEN <<>> ELSE Split(text, NL)

HasLine(text, line) == \E i \in 1..Len(Lines(text)) : Lines(text)[i] = line

\* x is computed once and handed to F, as a statement's result is to the next
Then(x, F(_)) == CHOOSE r \in {F(v) : v \in {x}} : TRUE

\* dict | dict: the right operand wins
Merge(a, b) ==
    [k \in (DOMAIN a) \cup (DOMAIN b) |-> IF k \in DOMAIN b THEN b[k] ELSE a[k]]

EmptyDict == [k \in {} |-> <<>>]

-----------------------------------------------------------------------------
(* Inputs: endpoints and relation data *)

HttpsX == <<"h", "t", "t", "p", "s", ":", "/", "/", "x">>

HttpX80 == <<"h", "t", "t", "p", ":", "/", "/", "x", ":", "8", "0">>

HttpX443 == <<"h", "t", "t", "p", ":", "/", "/", "x", ":", "4", "4", "3">>

S3Info(endpoint, access_key, secret_key) ==
    [endpoint |-> endpoint, access_key |-> access_key, secret_key |-> secret_key,
     path |-> <<"spark-events">>, bucket |-> <<"my-bucket">>]

\* the relation data the s3-credentials relation carries in turn
S3Infos ==
    { S3Info(HttpsX, <<"access-key">>, <<"secret-key">>),
      S3Info(HttpX80, <<>>, <<"c2VjcmV0", "=", "=">>) }

\* S3ConnectionInfo.log_dir
log_dir(s3) == <<"s3a://">> \o s3.bucket \o <<"/">> \o s3.path

-----------------------------------------------------------------------------
(* ConfigRenderer: managers/configuration_hub.py and config.py *)

K_ENDPOINT == "spark.hadoop.fs.s3a.endpoint"

K_ACCESS == "spark.hadoop.fs.s3a.access.key"

K_SECRET == "spark.hadoop.fs.s3a.secret.key"

K_EVENTLOG_DIR == "spark.eventLog.dir"

K_HISTORY_DIR == "spark.history.fs.logDirectory"

K_PROVIDER == "spark.hadoop.fs.s3a.aws.credentials.provider"

K_SSL == "spark.hadoop.fs.s3a.connection.ssl.enabled"

K_PATH_STYLE == "spark.hadoop.fs.s3a.path.style.access"

K_EVENTLOG_ENABLED == "spark.eventLog.enabled"

S3Keys == {K_ENDPOINT, K_ACCESS, K_SECRET, K_EVENTLOG_DIR, K_HISTORY_DIR, K_PROVIDER}

\* every key either renderer emits, in the order sorted() gives to these strings
KeysAscending ==
    <<K_EVENTLOG_DIR, K_EVENTLOG_ENABLED, K_ACCESS, K_PROVIDER, K_SSL,
      K_ENDPOINT, K_PATH_STYLE, K_SECRET, K_HISTORY_DIR>>

\* sorted(dict_content.keys())
Sorted(keys) == SelectSeq(KeysAscending, LAMBDA k : k \in keys)

DefaultEndpoint == <<"https://s3.amazonaws.com">>

SimpleProvider == <<"org.apache.hadoop.fs.s3a.SimpleAWSCredentialsProvider">>

\* `x or default`
OrElse(x, default) == IF Falsy(x) THEN default ELSE x

\* _ssl_enabled looking at the scheme alone
ssl_enabled_scheme_only(endpoint) ==
    IF \/ Falsy(endpoint)
       \/ StartsWith(endpoint, <<"h", "t", "t", "p", "s", ":">>)
    THEN <<"true">>
    ELSE <<"false">>

\* ConfigurationHubConfig._ssl_enabled
ssl_enabled(endpoint) ==
    IF \/ Falsy(endpoint)
       \/ StartsWith(endpoint, <<"h", "t", "t", "p", "s", ":">>)
       \/ Contains(endpoint, <<":", "4", "4", "3">>)
    THEN <<"true">>
    ELSE <<"false">>

\* ConfigurationHubConfig._base_conf
HubBaseConf == EmptyDict

\* _s3_conf emitting the endpoint and provider defaults without a relation
HubS3Conf_defaults(s3) ==
    IF s3 # NoRel
    THEN [k \in S3Keys \cup {K_SSL} |->
            CASE k = K_ENDPOINT -> OrElse(s3.endpoint, DefaultEndpoint)
              [] k = K_ACCESS -> s3.access_key
              [] k = K_SECRET -> s3.secret_key
              [] k = K_EVENTLOG_DIR -> log_dir(s3)
              [] k = K_HISTORY_DIR -> log_dir(s3)
              [] k = K_PROVIDER -> SimpleProvider
              [] k = K_SSL -> ssl_enabled(s3.endpoint)]
    ELSE [k \in {K_ENDPOINT, K_PROVIDER} |->
            IF k = K_ENDPOINT THEN DefaultEndpoint ELSE SimpleProvider]

\* ConfigurationHubConfig._s3_conf
HubS3Conf(s3) ==
    IF s3 # NoRel
    THEN [k \in S3Keys \cup {K_SSL} |->
            CASE k = K_ENDPOINT -> OrElse(s3.endpoint, DefaultEndpoint)
              [] k = K_ACCESS -> s3.access_key
              [] k = K_SECRET -> s3.secret_key
              [] k = K_EVENTLOG_DIR -> log_dir(s3)
              [] k = K_HISTORY_DIR -> log_dir(s3)
              [] k = K_PROVIDER -> SimpleProvider
              [] k = K_SSL -> ssl_enabled(s3.endpoint)]
    ELSE EmptyDict

\* ConfigurationHubConfig.to_dict
HubToDict(s3) == Merge(HubBaseConf, HubS3Conf(s3))

\* SparkConfigurationHubConfig._base_conf
CharmBaseConf ==
    [k \in {K_SSL, K_PATH_STYLE, K_EVENTLOG_ENABLED} |->
        IF k = K_SSL THEN <<"false">> ELSE <<"true">>]

\* SparkConfigurationHubConfig._s3_conf
CharmS3Conf(s3) ==
    IF s3 # NoRel
    THEN [k \in S3Keys |->
            CASE k = K_ENDPOINT -> OrElse(s3.endpoint, DefaultEndpoint)
              [] k = K_ACCESS -> s3.access_key
              [] k = K_SECRET -> s3.secret_key
              [] k = K_EVENTLOG_DIR -> log_dir(s3)
              [] k = K_HISTORY_DIR -> log_dir(s3)
              [] k = K_PROVIDER -> SimpleProvider]
    ELSE EmptyDict

\* SparkConfigurationHubConfig.to_dict
CharmToDict(s3) == Merge(CharmBaseConf, CharmS3Conf(s3))

\* f"{key}={value}"
KeyValueLine(key, value) == <<key, EQ>> \o value

\* the comprehension of contents without its `if value` filter
ContentLines_unfiltered(dict_content) ==
    LET keys == Sorted(DOMAIN dict_content)
    IN  [i \in 1..Len(keys) |->
            KeyValueLine(keys[i],
                         IF dict_content[keys[i]] = None THEN <<"None">>
                         ELSE dict_content[keys[i]])]

\* the comprehension of contents: one line per sorted key whose value is truthy
ContentLines(dict_content) ==
    LET keys == SelectSeq(Sorted(DOMAIN dict_content),
                          LAMBDA k : ~Falsy(dict_content[k]))
    IN  [i \in 1..Len(keys) |-> KeyValueLine(keys[i], dict_content[keys[i]])]

\* ConfigurationHubConfig.contents / SparkConfigurationHubConfig.contents
Contents(dict_content) == Join(ContentLines(dict_content), <<NL>>)

\* the inputs a renderer is given
RenderInputs == S3Infos \cup {NoRel}

\* relation data with an http endpoint on port 443 and with no endpoint
MoreInfos ==
    { S3Info(HttpX443, <<"access-key">>, <<"secret-key">>),
      S3Info(None, <<"access-key">>, <<>>) }

\* every input the renderers are tried on
AllInputs == RenderInputs \cup MoreInfos

\* config.contents of ConfigurationHubConfig(s3), rendered once per input
HubRendered == [s3 \in AllInputs |-> Contents(HubToDict(s3))]

HubContents(s3) == HubRendered[s3]

\* spark_config.contents of SparkConfigurationHubConfig(s3), rendered once per input
CharmRendered == [s3 \in AllInputs |-> Contents(CharmToDict(s3))]

CharmContents(s3) == CharmRendered[s3]

-----------------------------------------------------------------------------
(* WorkloadController: workload.py, core/workload.py *)

CONFIGURATION_HUB_SERVICE == "configuration-hub"

ENV_FILE == "/etc/spark/environment"

\* ConfigurationHubPaths.spark_properties with CONFS_PATH
spark_properties == "/etc/spark/conf/spark-properties.conf"

SPARK_PROPERTIES_FILE == "SPARK_PROPERTIES_FILE"

\* a variable of the environment other than the one update sets
JAVA_HOME == "JAVA_HOME"

\* the environment variables to_env / from_env order lines by
EnvKeysAscending == <<JAVA_HOME, SPARK_PROPERTIES_FILE>>

\* to_env: one KEY=VALUE line per variable
to_env(envs) ==
    LET keys == SelectSeq(EnvKeysAscending, LAMBDA k : k \in DOMAIN envs)
    IN  [i \in 1..Len(keys) |-> <<keys[i], EQ>> \o envs[keys[i]]]

\* from_env: the mapping the lines of an environment file give
from_env(text) ==
    LET ls == SelectSeq(Lines(text), LAMBDA l : Len(l) >= 2 /\ l[2] = EQ)
    IN  [k \in {ls[i][1] : i \in 1..Len(ls)} |->
            LET i == CHOOSE j \in 1..Len(ls) :
                        /\ ls[j][1] = k
                        /\ \A m \in 1..Len(ls) : ls[m][1] = k => m <= j
            IN  SubSeq(ls[i], 3, Len(ls[i]))]

\* The steps of a handler thread one record through:
\*   running : the managed service is running
\*   files   : path -> text, for the paths that exist
\*   plan    : environment of the service in Pebble's plan
\*   envs    : SparkHistoryServer._envs, None until first read (per process)
\*   log     : the boundary calls made so far, each with the service state it met
\*   err     : "" or the exception that ended the handler
NoEnvs == [unread |-> TRUE]

Begin(w) == [running |-> w.running, files |-> w.files, plan |-> w.plan,
             envs |-> NoEnvs, log |-> <<>>, err |-> ""]

Logged(c, op) == Append(c.log, [op |-> op, running |-> c.running])

\* AbstractWorkload.exists
exists(c, path) == path \in DOMAIN c.files

\* SparkHistoryServer.envs
envs(c) ==
    IF c.envs # NoEnvs THEN c.envs
    ELSE IF exists(c, ENV_FILE) THEN from_env(c.files[ENV_FILE])
    ELSE EmptyDict

\* AbstractWorkload.write through Pebble: fails as a whole or writes the file
write(c, content, path, fails) ==
    IF c.err # "" THEN c
    ELSE IF fails THEN [c EXCEPT !.err = "PathError"]
    ELSE [c EXCEPT !.files = [p \in (DOMAIN c.files) \cup {path} |->
                                  IF p = path THEN content ELSE c.files[p]],
                   !.log = Logged(c, path)]

\* stop refusing a service that is not running
stop_strict(c, fault) ==
    IF c.err # "" THEN c
    ELSE IF fault = "stop" THEN [c EXCEPT !.err = "ConnectionError"]
    ELSE IF ~c.running THEN [c EXCEPT !.err = "ChangeError"]
    ELSE [c EXCEPT !.running = FALSE, !.log = Logged(c, "stop")]

\* SparkHistoryServer.stop
stop(c, fault) ==
    IF c.err # "" THEN c
    ELSE IF fault = "stop" THEN [c EXCEPT !.err = "ConnectionError"]
    ELSE [c EXCEPT !.running = FALSE, !.log = Logged(c, "stop")]

\* set_environment adding its lines to the environment file it finds
set_environment_append(c, env, fault) ==
    IF c.err # "" THEN c
    ELSE LET Keep(merged) ==
                 [k \in {x \in DOMAIN merged : merged[x] # None} |-> merged[k]]
             Save(d) ==
                 write(d,
                       IF exists(d, ENV_FILE)
                       THEN d.files[ENV_FILE] \o <<NL>> \o Join(to_env(envs(d)), <<NL>>)
                       ELSE Join(to_env(envs(d)), <<NL>>),
                       ENV_FILE, fault = "set_environment")
         IN  Then(Then(Merge(envs(c), env), Keep),
                  LAMBDA kept : Then([c EXCEPT !.envs = kept], Save))

\* set_environment keeping nothing of the environment it finds
set_environment_replace(c, env, fault) ==
    IF c.err # "" THEN c
    ELSE LET Keep(merged) ==
                 [k \in {x \in DOMAIN merged : merged[x] # None} |-> merged[k]]
             Save(d) ==
                 write(d, Join(to_env(envs(d)), <<NL>>), ENV_FILE,
                       fault = "set_environment")
         IN  Then(Then(env, Keep),
                  LAMBDA kept : Then([c EXCEPT !.envs = kept], Save))

\* set_environment pushing the new environment into the plan at once
set_environment_replan(c, env, fault) ==
    IF c.err # "" THEN c
    ELSE LET Keep(merged) ==
                 [k \in {x \in DOMAIN merged : merged[x] # None} |-> merged[k]]
             Save(d) ==
                 write(d, Join(to_env(envs(d)), <<NL>>), ENV_FILE,
                       fault = "set_environment")
         IN  Then(Then(Merge(envs(c), env), Keep),
                  LAMBDA kept : Then([c EXCEPT !.envs = kept, !.plan = kept], Save))

\* SparkHistoryServer.set_environment
set_environment(c, env, fault) ==
    IF c.err # "" THEN c
    ELSE LET Keep(merged) ==
                 [k \in {x \in DOMAIN merged : merged[x] # None} |-> merged[k]]
             Save(d) ==
                 write(d, Join(to_env(envs(d)), <<NL>>), ENV_FILE,
                       fault = "set_environment")
         IN  Then(Then(Merge(envs(c), env), Keep),
                  LAMBDA kept : Then([c EXCEPT !.envs = kept], Save))

\* start restarting the service without looking for its configuration file
start_unchecked(c, fault) ==
    IF c.err # "" THEN c
    ELSE IF fault = "add_layer" THEN [c EXCEPT !.err = "ConnectionError"]
    ELSE LET AddLayer(layer) ==
                 [c EXCEPT !.plan = layer, !.envs = layer,
                           !.log = Logged(c, "add_layer")]
             Restart(d) ==
                 IF fault = "restart" THEN [d EXCEPT !.err = "ChangeError"]
                 ELSE [d EXCEPT !.running = TRUE, !.log = Logged(d, "restart")]
         IN  Then(Then(envs(c), AddLayer), Restart)

\* SparkHistoryServer.start
start(c, fault) ==
    IF c.err # "" THEN c
    ELSE IF fault = "add_layer" THEN [c EXCEPT !.err = "ConnectionError"]
    ELSE LET AddLayer(layer) ==
                 [c EXCEPT !.plan = layer, !.envs = layer,
                           !.log = Logged(c, "add_layer")]
             Restart(d) ==
                 IF ~exists(d, spark_properties)
                 THEN [d EXCEPT !.err = "FileNotFoundError"]
                 ELSE IF fault = "restart" THEN [d EXCEPT !.err = "ChangeError"]
                 ELSE [d EXCEPT !.running = TRUE, !.log = Logged(d, "restart")]
         IN  Then(Then(envs(c), AddLayer), Restart)

\* restart starting the service without stopping it first
restart_start_only(c, fault) == start(c, fault)

\* ConfigurationHubWorkloadBase.restart
restart(c, fault) == Then(stop(c, fault), LAMBDA c1 : start(c1, fault))

\* update writing the configuration before it stops the service
update_write_first(c, s3, fault) ==
    LET Stop(c1) == stop(c1, fault)
        SetEnv(c2) ==
            set_environment(c2, [k \in {SPARK_PROPERTIES_FILE} |-> <<spark_properties>>],
                            fault)
        Start(c3) == start(c3, fault)
    IN  Then(Then(Then(write(c, HubContents(s3), spark_properties, fault = "write"),
                       Stop), SetEnv), Start)

\* update leaving the service as it is while it rewrites the files
update_no_stop(c, s3, fault) ==
    LET SetEnv(c2) ==
            set_environment(c2, [k \in {SPARK_PROPERTIES_FILE} |-> <<spark_properties>>],
                            fault)
        Start(c3) == start(c3, fault)
    IN  Then(Then(write(c, HubContents(s3), spark_properties, fault = "write"),
                  SetEnv), Start)

\* ConfigurationHubManager.update
update(c, s3, fault) ==
    LET WriteConf(c1) ==
            write(c1, HubContents(s3), spark_properties, fault = "write")
        SetEnv(c2) ==
            set_environment(c2, [k \in {SPARK_PROPERTIES_FILE} |-> <<spark_properties>>],
                            fault)
        Start(c3) == start(c3, fault)
    IN  Then(Then(Then(stop(c, fault), WriteConf), SetEnv), Start)

-----------------------------------------------------------------------------
(* StatusEngine and the event handlers: events/*.py *)

\* core.context.Status (the names of its members)
HubStatus == {"WAITING_PEBBLE", "INVALID_CREDENTIALS", "NOT_RUNNING", "NOT_TRUSTED",
              "ACTIVE"}

\* the status Juju shows before any handler has set one
Unknown == "unknown"

\* get_app_status asking for permissions before it asks for Pebble
get_app_status_trust_first(ready, is_trusted, s3, verify, active) ==
    IF ~is_trusted THEN "NOT_TRUSTED"
    ELSE IF ~ready THEN "WAITING_PEBBLE"
    ELSE IF s3 # NoRel /\ ~verify THEN "INVALID_CREDENTIALS"
    ELSE IF ~active THEN "NOT_RUNNING"
    ELSE "ACTIVE"

\* get_app_status asking for the service before it verifies the credentials
get_app_status_service_first(ready, is_trusted, s3, verify, active) ==
    IF ~ready THEN "WAITING_PEBBLE"
    ELSE IF ~is_trusted THEN "NOT_TRUSTED"
    ELSE IF ~active THEN "NOT_RUNNING"
    ELSE IF s3 # NoRel /\ ~verify THEN "INVALID_CREDENTIALS"
    ELSE "ACTIVE"

\* BaseEventHandler.get_app_status, on the answers of its four probes
get_app_status(ready, is_trusted, s3, verify, active) ==
    IF ~ready THEN "WAITING_PEBBLE"
    ELSE IF ~is_trusted THEN "NOT_TRUSTED"
    ELSE IF s3 # NoRel /\ ~verify THEN "INVALID_CREDENTIALS"
    ELSE IF ~active THEN "NOT_RUNNING"
    ELSE "ACTIVE"

\* The boundaries a handler probes: Pebble, the Kubernetes API, the object
\* store and the supervised service.
Env(c) == [can_connect |-> can_connect, trusted |-> trusted, s3_ok |-> s3_ok,
           running |-> c.running]

Changes == {"none", "pebble", "trust", "s3", "service"}

\* one boundary changes its answer
Changed(e, ch) ==
    CASE ch = "none" -> e
      [] ch = "pebble" -> [e EXCEPT !.can_connect = ~e.can_connect]
      [] ch = "trust" -> [e EXCEPT !.trusted = ~e.trusted]
      [] ch = "s3" -> [e EXCEPT !.s3_ok = ~e.s3_ok]
      [] ch = "service" -> [e EXCEPT !.running = FALSE]

\* SparkHistoryServer.ready
ready(e) == e.can_connect

\* SparkHistoryServer.active
active(e) == e.can_connect /\ e.running

\* an edge-triggered evaluation: INVALID_CREDENTIALS, once reported, stays
\* until the relation is gone
StatusIn_sticky(e, s3) ==
    IF unit_status = "INVALID_CREDENTIALS" /\ s3 # NoRel THEN unit_status
    ELSE get_app_status(ready(e), e.trusted, s3, e.s3_ok, active(e))

\* get_app_status(s3, ...) evaluated against the boundaries as they are in e
StatusIn(e, s3) == get_app_status(ready(e), e.trusted, s3, e.s3_ok, active(e))

\* what the unit-status evaluation saw
Obs(e, s3) == [ready |-> ready(e), trusted |-> e.trusted, s3 |-> s3 # NoRel,
               verify |-> e.s3_ok, active |-> active(e)]

NoObs == [ready |-> FALSE, trusted |-> FALSE, s3 |-> FALSE, verify |-> FALSE,
          active |-> FALSE]

NoUpdate == [ran |-> FALSE]

\* event  : the signal handled last ("none" once a boundary changed since)
\* err    : "" or the exception the handler raised
\* log    : the boundary calls its body made
\* obs    : what the evaluation that set the unit status saw
\* upd    : the update its body ran: its input and the call that failed
\* repeat : the handler before it ran the same update
\* up     : the service was running when the body returned (for a single
\*          call on the workload: when the call began)
\* probes : how often the handler asked each outer boundary
NoProbes == [trusted |-> 0, verify |-> 0]

Idle == [event |-> "none", err |-> "", log |-> <<>>, obs |-> NoObs,
         upd |-> NoUpdate, repeat |-> FALSE, up |-> FALSE, probes |-> NoProbes]

\* the boundary calls one evaluation of get_app_status makes: trusted() once
\* the workload is ready, verify() once it is trusted and there is a relation
ProbesIn(e, s3) ==
    [trusted |-> IF ready(e) THEN 1 ELSE 0,
     verify |-> IF ready(e) /\ e.trusted /\ s3 # NoRel THEN 1 ELSE 0]

\* the calls of the evaluations of one handler, the application's only on the leader
ProbesOf(eu, ea, s3) ==
    LET u == ProbesIn(eu, s3)
        a == IF leader THEN ProbesIn(ea, s3) ELSE NoProbes
    IN  [trusted |-> u.trusted + a.trusted, verify |-> u.verify + a.verify]

\* the boundary call of update that fails first, if any
Faults == {"none", "stop", "write", "add_layer", "restart"}

\* the faults Pebble can show a handler: every call fails while it is unreachable
FaultsNow == IF can_connect THEN Faults ELSE {"stop"}

\* The service accounts of the cluster and the watch of the monitor
\* (monitor_sa.py: client.watch(ServiceAccount, namespace="*", labels=...)).
\* The service the workload runs is the monitor: a watch begins when the
\* service is started, with one ADDED event per account that exists, and it
\* ends with the process.
Namespace == "spark"

Account(name) == [name |-> name, namespace |-> Namespace]

\* the names the requirers of the two relations ask for
AccountNames == <<"sa1", "sa2">>

WatchEvent(op, sa) == [op |-> op, sa |-> sa]

\* the events a new watch begins with
Relist ==
    LET names == SelectSeq(AccountNames, LAMBDA n : Account(n) \in accounts)
    IN  [i \in 1..Len(names) |-> WatchEvent("ADDED", Account(names[i]))]

\* the watch after a step whose boundary calls were log and that leaves the
\* service running or not
Watching(log, running) ==
    IF ~running THEN <<>>
    ELSE IF (\E i \in 1..Len(log) : log[i].op = "restart") \/ ~workload.running
    THEN Relist
    ELSE watch

\* the watch after the registry has created or deleted an account
Notified(op, sa) ==
    IF workload.running THEN Append(watch, WatchEvent(op, sa)) ELSE watch

Rels == {"A", "B"}

NoData == [k \in {} |-> ""]

\* a relation that is not established: nothing in either databag and no
\* unit of the requirer in it
NoRelation == [up |-> FALSE, req |-> NoData, prov |-> NoData, data |-> NoData,
               pending |-> {}, granted |-> FALSE, units |-> 0]

\* event, rel : the step taken last and the relation it was about
\* err        : "" or the exception that ended it
\* cmd        : the registry commands it ran
\* emitted    : the requirer emitted account_granted
\* op, sa      : the watch event the monitor took
\* options    : what the monitor read from the configuration file
NoAccount == [name |-> "", namespace |-> ""]

SaIdle == [event |-> "none", rel |-> "", err |-> "", cmd |-> <<>>,
           emitted |-> FALSE, op |-> "", sa |-> NoAccount, options |-> NoData]

Persisted(c, e) == [running |-> e.running, files |-> c.files, plan |-> c.plan]

\* The end of a handler whose body left c.  A body that raised ends the
\* handler there.  Otherwise the statuses are set by two separate evaluations
\* of get_app_status, between which a boundary may change its answer (mid):
\* compute_status sets the application status first (leader only) and the unit
\* status second; the relation-gone handlers set the unit status first.
Conclude(event, c, s3seen, upd, mid, unitFirst) ==
    LET e1 == Env(c)
        e2 == Changed(e1, mid)
        eu == IF unitFirst \/ ~leader THEN e1 ELSE e2
        ea == IF unitFirst THEN e2 ELSE e1
        rep == upd.ran /\ last.upd = upd
    IN  IF c.err # ""
        THEN /\ mid = "none"
             /\ workload' = Persisted(c, e1)
             /\ watch' = Watching(c.log, e1.running)
             /\ last' = [event |-> event, err |-> c.err, log |-> c.log,
                         obs |-> NoObs, upd |-> upd, repeat |-> rep,
                         up |-> c.running, probes |-> NoProbes]
             /\ UNCHANGED <<unit_status, app_status, can_connect, trusted, s3_ok>>
        ELSE /\ mid # "none" => leader
             /\ workload' = Persisted(c, e2)
             /\ watch' = Watching(c.log, e2.running)
             /\ unit_status' = StatusIn(eu, s3seen)
             /\ app_status' = IF leader THEN StatusIn(ea, s3seen) ELSE app_status
             /\ can_connect' = e2.can_connect
             /\ trusted' = e2.trusted
             /\ s3_ok' = e2.s3_ok
             /\ last' = [event |-> event, err |-> "", log |-> c.log,
                         obs |-> Obs(eu, s3seen), upd |-> upd, repeat |-> rep,
                         up |-> c.running, probes |-> ProbesOf(eu, ea, s3seen)]

Ran(s3, fault) == [ran |-> TRUE, s3 |-> s3, fault |-> fault]

\* ConfigurationHubEvents._update_event (install, update-status)
UpdateEvent ==
    \E mid \in Changes :
        /\ Conclude("update_status", Begin(workload), s3rel, NoUpdate, mid, FALSE)
        /\ UNCHANGED <<s3rel, leader>>
        /\ UNCHANGED <<charmVars, probe, restVars>>

\* ConfigurationHubEvents._on_configuration_hub_pebble_ready
PebbleReady ==
    \E fault \in FaultsNow :
        \E c \in {update(Begin(workload), s3rel, fault)}, mid \in Changes :
            /\ Conclude("pebble_ready", c, s3rel, Ran(s3rel, fault), mid, FALSE)
            /\ UNCHANGED <<s3rel, leader>>
            /\ UNCHANGED <<charmVars, probe, restVars>>

\* _on_s3_credential_changed rendering only credentials that verify
S3CredentialChanged_gated ==
    \E info \in S3Infos, fault \in FaultsNow :
        \E c \in {IF s3_ok THEN update(Begin(workload), info, fault) ELSE Begin(workload)},
           mid \in Changes :
            /\ s3rel' = info
            /\ Conclude("s3_changed", c, info, Ran(info, fault), mid, FALSE)
            /\ UNCHANGED leader
            /\ UNCHANGED <<charmVars, probe, restVars>>

\* S3Events._on_s3_credential_changed
S3CredentialChanged ==
    \E info \in S3Infos, fault \in FaultsNow :
        \E c \in {update(Begin(workload), info, fault)}, mid \in Changes :
            /\ s3rel' = info
            /\ Conclude("s3_changed", c, info, Ran(info, fault), mid, FALSE)
            /\ UNCHANGED leader
            /\ UNCHANGED <<charmVars, probe, restVars>>

\* _on_s3_credential_gone handing on the relation data it still reads
S3CredentialGone_keeps ==
    \E fault \in FaultsNow :
        \E c \in {update(Begin(workload), s3rel, fault)}, mid \in Changes :
            /\ s3rel # NoRel
            /\ s3rel' = NoRel
            /\ Conclude("s3_gone", c, s3rel, Ran(s3rel, fault), mid, TRUE)
            /\ UNCHANGED leader
            /\ UNCHANGED <<charmVars, probe, restVars>>

\* S3Events._on_s3_credential_gone
S3CredentialGone ==
    \E fault \in FaultsNow :
        \E c \in {update(Begin(workload), NoRel, fault)}, mid \in Changes :
            /\ s3rel # NoRel
            /\ s3rel' = NoRel
            /\ Conclude("s3_gone", c, NoRel, Ran(NoRel, fault), mid, TRUE)
            /\ UNCHANGED leader
            /\ UNCHANGED <<charmVars, probe, restVars>>

\* Context.pushgateway while the push-gateway relation is there
PushGateway == [pushgateway |-> TRUE]

\* ConfigurationHubManager.update called with the arguments a handler hands
\* it: update(self, s3) takes s3 and nothing else
update_called(c, args, fault) ==
    IF Len(args) # 1 THEN [c EXCEPT !.err = "TypeError"]
    ELSE update(c, args[1], fault)

\* PushgatewayEvents._on_pushgateway_changed under compute_status:
\* is_ready is what PrometheusPushgatewayRequirer.is_ready() answers
PushgatewayChanged ==
    \E is_ready \in BOOLEAN, fault \in FaultsNow :
        \E c \in {IF is_ready
                  THEN update_called(Begin(workload), <<s3rel, PushGateway>>, fault)
                  ELSE Begin(workload)},
           mid \in Changes :
            /\ Conclude("pushgateway_changed", c, s3rel,
                        IF is_ready THEN Ran(s3rel, fault) ELSE NoUpdate, mid, FALSE)
            /\ UNCHANGED <<s3rel, leader>>
            /\ UNCHANGED <<charmVars, probe, restVars>>

\* Between two signals a boundary changes its answer.
EnvChange ==
    \E ch \in Changes \ {"none"} :
        LET e == Changed(Env(workload), ch)
        IN  /\ e # Env(workload)
            /\ can_connect' = e.can_connect
            /\ trusted' = e.trusted
            /\ s3_ok' = e.s3_ok
            /\ workload' = [workload EXCEPT !.running = e.running]
            /\ watch' = Watching(<<>>, e.running)
            /\ last' = Idle
            /\ UNCHANGED <<s3rel, leader, unit_status, app_status>>
            /\ UNCHANGED <<charmVars, probe, restVars>>

-----------------------------------------------------------------------------
(* The single-file draft: charm.py, config.py, models.py *)

\* models.Status (the names of its members)
CharmStatus == {"INSTALL", "MISSING_PERMISSIONS", "INVALID_CREDENTIALS", "ACTIVE"}

\* how list_buckets fails when it fails
S3Errors == {"ClientError", "SSLError"}

\* S3ConnectionInfo.verify of models.py on the outcome of list_buckets:
\* TRUE, FALSE, or the exception that leaves it
verify(outcome) ==
    IF outcome = "ok" THEN "True"
    ELSE IF outcome = "ClientError" THEN "False"
    ELSE outcome

\* looking up a member of models.Status
StatusMember(name) == IF name \in CharmStatus THEN name ELSE "AttributeError"

\* SparkConfigurationHubCharm.get_status: a member of Status, or the exception raised
get_status(s3, outcome) ==
    IF s3 = NoRel THEN StatusMember("MISSING_S3_RELATION")
    ELSE IF verify(outcome) = "False" THEN StatusMember("INVALID_CREDENTIALS")
    ELSE IF verify(outcome) = "True" THEN StatusMember("ACTIVE")
    ELSE verify(outcome)

\* the most monitor processes alive at once
MaxProcs == 2

Pids == 1..MaxProcs

NoConfFile == [exists |-> FALSE, text |-> <<>>]

\* event  : the signal handled last
\* result : what get_status gave its handler, "" if it called none
CharmIdle == [event |-> "none", result |-> ""]

\* the outcomes list_buckets can have now
Outcomes == IF s3_ok THEN {"ok"} ELSE S3Errors

\* the s3-credentials relation established with nothing yet written by the
\* provider: get_s3_connection_info gives an empty mapping
EmptyRel == [absent |-> FALSE, data |-> NoData]

\* the exception that left a call in place of its value
Raised(error) == [raised |-> error]

\* the fields a S3ConnectionInfo of models.py cannot be built without
S3ConnectionInfoFields == {"endpoint", "access_key", "secret_key", "path", "bucket"}

\* SparkConfigurationHubCharm.s3_connection_info: None without a relation,
\* else S3ConnectionInfo(**raw), which raises TypeError when raw lacks a field
s3_connection_info(rel) ==
    IF rel = NoRel THEN NoRel
    ELSE IF rel = EmptyRel /\ S3ConnectionInfoFields \ DOMAIN rel.data # {}
    THEN Raised("TypeError")
    ELSE rel

\* a handler left by the exception of s3_connection_info before it did anything
Raises(event, s3) ==
    /\ charm_last' = [event |-> event, result |-> s3.raised]
    /\ UNCHANGED <<charm_status, conf_file, pid, procs>>

\* SparkConfigurationHubCharm.update_service with _stop_process, _start_process
\* and set_peer_data: pid is a key of the application's peer databag, which
\* only the leader may write; on any other unit the write raises after the
\* process was killed or started
update_service(event, s3) ==
    \E outcome \in Outcomes, new \in Pids :
        LET status == get_status(s3, outcome)
        IN  /\ charm_last' = [event |-> event, result |-> status]
            /\ IF status \notin CharmStatus
               THEN UNCHANGED <<charm_status, conf_file, pid, procs>>
               ELSE /\ charm_status' = status
                    /\ conf_file' = [exists |-> TRUE, text |-> CharmContents(s3)]
                    /\ IF status # "ACTIVE"
                       THEN /\ new = 1
                            /\ UNCHANGED <<pid, procs>>
                       ELSE IF leader
                       THEN \* _stop_process of the recorded pid, then _start_process
                            /\ new \notin procs \ {pid}
                            /\ procs' = (procs \ {pid}) \cup {new}
                            /\ pid' = new
                       ELSE IF pid # 0
                       THEN \* _stop_process kills, and set_peer_data raises
                            /\ new = 1
                            /\ procs' = procs \ {pid}
                            /\ pid' = pid
                       ELSE \* _start_process starts, and set_peer_data raises
                            /\ new \notin procs
                            /\ procs' = procs \cup {new}
                            /\ pid' = pid

\* SparkConfigurationHubCharm._on_s3_credential_changed
CharmS3CredentialChanged ==
    \E info \in S3Infos :
        /\ s3rel' = info
        /\ update_service("s3_changed", info)
        /\ UNCHANGED <<can_connect, trusted, s3_ok>>
        /\ UNCHANGED <<hubVars, probe, saVars>>

\* juju integrate with the provider of S3 credentials: the relation is there,
\* its data is not; the requirer emits no credentials-changed for it
CharmS3RelationJoined ==
    /\ s3rel = NoRel
    /\ s3rel' = EmptyRel
    /\ charm_last' = CharmIdle
    /\ UNCHANGED <<can_connect, trusted, s3_ok, charm_status, conf_file, pid, procs>>
    /\ UNCHANGED <<hubVars, probe, saVars>>

\* SparkConfigurationHubCharm._on_s3_credential_gone
CharmS3CredentialGone ==
    /\ s3rel # NoRel
    /\ s3rel' = NoRel
    /\ update_service("s3_gone", NoRel)
    /\ UNCHANGED <<can_connect, trusted, s3_ok>>
    /\ UNCHANGED <<hubVars, probe, saVars>>

\* SparkConfigurationHubCharm._on_config_changed
CharmConfigChanged ==
    /\ LET s3 == s3_connection_info(s3rel)
       IN  IF s3 = Raised("TypeError") THEN Raises("config_changed", s3)
           ELSE update_service("config_changed", s3)
    /\ UNCHANGED <<s3rel, can_connect, trusted, s3_ok>>
    /\ UNCHANGED <<hubVars, probe, saVars>>

\* SparkConfigurationHubCharm._update_event on update-status
CharmUpdateStatus ==
    \E outcome \in Outcomes :
        LET s3 == s3_connection_info(s3rel)
            status == get_status(s3, outcome)
        IN  /\ IF s3 = Raised("TypeError") THEN Raises("update_status", s3)
               ELSE /\ charm_last' = [event |-> "update_status", result |-> status]
                    /\ charm_status' = IF status \in CharmStatus THEN status
                                       ELSE charm_status
                    /\ UNCHANGED <<conf_file, pid, procs>>
            /\ UNCHANGED <<s3rel, can_connect, trusted, s3_ok>>
            /\ UNCHANGED <<hubVars, probe, saVars>>

\* install: _update_event, then _on_install if it returned
CharmInstall ==
    \E outcome \in Outcomes :
        LET s3 == s3_connection_info(s3rel)
            status == get_status(s3, outcome)
        IN  /\ charm_status = Unknown
            /\ IF s3 = Raised("TypeError") THEN Raises("install", s3)
               ELSE /\ charm_last' = [event |-> "install", result |-> status]
                    /\ charm_status' = IF status \in CharmStatus THEN "INSTALL"
                                       ELSE charm_status
                    /\ UNCHANGED <<conf_file, pid, procs>>
            /\ UNCHANGED <<s3rel, can_connect, trusted, s3_ok>>
            /\ UNCHANGED <<hubVars, probe, saVars>>

\* Between two signals the object store changes its answer, or a monitor exits.
CharmEnvChange ==
    /\ \/ s3_ok' = ~s3_ok /\ UNCHANGED procs
       \/ \E p \in procs : procs' = procs \ {p} /\ UNCHANGED s3_ok
    /\ charm_last' = CharmIdle
    /\ UNCHANGED <<s3rel, can_connect, trusted, charm_status, conf_file, pid>>
    /\ UNCHANGED <<hubVars, probe, saVars>>

NextCharm ==
    \/ CharmInstall
    \/ CharmUpdateStatus
    \/ CharmS3RelationJoined
    \/ CharmS3CredentialChanged
    \/ CharmS3CredentialGone
    \/ CharmConfigChanged
    \/ CharmEnvChange

-----------------------------------------------------------------------------
(* The workload's operations, called in any order: workload.py *)

StartFaults == {"none", "add_layer", "restart"}

\* the environments set_environment is handed
EnvArgs == {[k \in {SPARK_PROPERTIES_FILE} |-> <<spark_properties>>],
            [k \in {SPARK_PROPERTIES_FILE} |-> None],
            [k \in {JAVA_HOME} |-> <<"/opt/java">>],
            [k \in {JAVA_HOME, SPARK_PROPERTIES_FILE} |->
                IF k = JAVA_HOME THEN None ELSE <<"/etc/hub/conf/spark-properties.conf">>]}

\* the end of one call on the workload
Called(op, c) ==
    /\ workload' = Persisted(c, [running |-> c.running])
    /\ watch' = Watching(c.log, c.running)
    /\ last' = [Idle EXCEPT !.event = op, !.err = c.err, !.log = c.log,
                            !.up = workload.running]
    /\ UNCHANGED <<s3rel, can_connect, trusted, s3_ok, leader, unit_status, app_status>>
    /\ UNCHANGED <<charmVars, probe, restVars>>

\* the end of one call that was handed arg: upd keeps the argument and the
\* environment the workload object held when the call ended
CalledWith(op, c, arg) ==
    /\ workload' = Persisted(c, [running |-> c.running])
    /\ watch' = Watching(c.log, c.running)
    /\ last' = [Idle EXCEPT !.event = op, !.err = c.err, !.log = c.log,
                            !.up = workload.running,
                            !.upd = [ran |-> FALSE, arg |-> arg, envs |-> c.envs]]
    /\ UNCHANGED <<s3rel, can_connect, trusted, s3_ok, leader, unit_status, app_status>>
    /\ UNCHANGED <<charmVars, probe, restVars>>

\* workload.start()
CallStart == \E fault \in StartFaults : Called("start", start(Begin(workload), fault))

\* workload.stop()
CallStop == \E fault \in {"none", "stop"} : Called("stop", stop(Begin(workload), fault))

\* workload.restart()
CallRestart ==
    \E fault \in StartFaults \cup {"stop"} :
        Called("restart", restart(Begin(workload), fault))

\* workload.set_environment(env)
CallSetEnvironment ==
    \E env \in EnvArgs, fault \in {"none", "set_environment"} :
        CalledWith("set_environment", set_environment(Begin(workload), env, fault), env)

\* workload.write(contents, paths.spark_properties)
CallWrite ==
    \E s3 \in AllInputs, fails \in BOOLEAN :
        Called("write", write(Begin(workload), HubContents(s3), spark_properties, fails))

NextWorkload ==
    \/ CallStart
    \/ CallStop
    \/ CallRestart
    \/ CallSetEnvironment
    \/ CallWrite

-----------------------------------------------------------------------------
(* The probes of the boundaries: managers/s3.py, managers/k8s.py, workload.py *)

NoProbe == [call |-> "none", result |-> "", calls |-> <<>>]

\* One attempt on a boundary: the step that failed and the exception it
\* raised, error "" when every step succeeded.
Outcome(stage, error) == [stage |-> stage, error |-> error]

\* how list_buckets fails with credentials the object store refuses or cannot check
ListBucketsErrors == {"ClientError", "SSLError", "EndpointConnectionError"}

\* what an attempt to verify can meet now: the temporary CA file cannot be
\* made, the client cannot be built for the endpoint, or list_buckets answers
S3Outcomes ==
    {Outcome("ca_file", "OSError"), Outcome("client", "ValueError")}
        \cup (IF s3_ok THEN {Outcome("list_buckets", "")}
              ELSE {Outcome("list_buckets", e) : e \in ListBucketsErrors})

\* S3Manager.verify: "True", "False", or the exception that leaves it
S3Manager_verify(outcome) ==
    IF outcome.stage \in {"ca_file", "client"} /\ outcome.error # ""
    THEN outcome.error
    ELSE IF outcome.error # "" THEN "False"
    ELSE "True"

\* what the cluster-wide list of service accounts can meet now: no client
\* configuration, the API server out of reach, or the API server's answer
K8sOutcomes ==
    {Outcome("client", "ConfigError"), Outcome("list", "ConnectError")}
        \cup (IF trusted THEN {Outcome("list", "")} ELSE {Outcome("list", "ApiError")})

\* KubernetesManager(app_name).trusted(): "True", "False", or the exception
\* that leaves the constructor or the call
KubernetesManager_trusted(outcome) ==
    IF outcome.stage = "client" /\ outcome.error # "" THEN outcome.error
    ELSE IF outcome.error = "" THEN "True"
    ELSE IF outcome.error = "ApiError" THEN "False"
    ELSE outcome.error

\* what container.get_service can meet now: Pebble out of reach, the service
\* not in the plan, or the service's state
ServiceOutcomes ==
    IF ~can_connect THEN {Outcome("get_service", "ConnectionError")}
    ELSE IF workload.running THEN {Outcome("is_running", "")}
    ELSE {Outcome("is_running", ""), Outcome("get_service", "ModelError")}

\* SparkHistoryServer.active: "True", "False", or the exception that leaves it
SparkHistoryServer_active(outcome, running) ==
    IF outcome.stage = "get_service" /\ outcome.error = "ConnectionError" THEN "False"
    ELSE IF outcome.error # "" THEN outcome.error
    ELSE IF running THEN "True"
    ELSE "False"

Answers == {"True", "False"}

\* BaseEventHandler.get_app_status over probes that may raise: the status, or
\* the exception of the first probe reached that raises
get_app_status_probed(is_ready, k8s, s3, s3out, svc, running) ==
    LET t == KubernetesManager_trusted(k8s)
        v == S3Manager_verify(s3out)
        a == SparkHistoryServer_active(svc, running)
    IN  IF ~is_ready THEN get_app_status(FALSE, FALSE, s3, FALSE, FALSE)
        ELSE IF t \notin Answers THEN t
        ELSE IF t = "False" THEN get_app_status(TRUE, FALSE, s3, FALSE, FALSE)
        ELSE IF s3 # NoRel /\ v \notin Answers THEN v
        ELSE IF s3 # NoRel /\ v = "False" THEN get_app_status(TRUE, TRUE, s3, FALSE, FALSE)
        ELSE IF a \notin Answers THEN a
        ELSE get_app_status(TRUE, TRUE, s3, TRUE, a = "True")

\* every probe is made before the status is decided
get_app_status_calls_eager(is_ready, k8s, s3, s3out) ==
    <<"ready", "trusted", "verify", "active">>

\* BaseEventHandler.get_app_status: the probes one call makes, in the order
\* it makes them; a probe that answers no, or raises, ends the call
get_app_status_calls(is_ready, k8s, s3, s3out) ==
    LET t == KubernetesManager_trusted(k8s)
        v == S3Manager_verify(s3out)
    IN  <<"ready">> \o
        (IF ~is_ready THEN <<>>
         ELSE <<"trusted">> \o
              (IF t # "True" THEN <<>>
               ELSE IF s3 = NoRel THEN <<"active">>
               ELSE <<"verify">> \o (IF v # "True" THEN <<>> ELSE <<"active">>)))

\* one probe ends: what was asked, what it gave, and the probes made on the way
ProbedCalls(call, result, calls) ==
    /\ probe' = [call |-> call, result |-> result, calls |-> calls]
    /\ UNCHANGED <<s3rel, can_connect, trusted, s3_ok>>
    /\ UNCHANGED <<hubVars, charmVars, saVars>>

Probed(call, result) == ProbedCalls(call, result, <<>>)


\* S3Manager(s3).verify()
ProbeVerify ==
    /\ s3rel # NoRel
    /\ \E o \in S3Outcomes : Probed("S3Manager.verify", S3Manager_verify(o))

\* S3ConnectionInfo.verify() of models.py
ProbeInfoVerify ==
    /\ s3rel # NoRel
    /\ \E o \in S3Outcomes :
          Probed("S3ConnectionInfo.verify",
                 IF o.stage = "list_buckets"
                 THEN verify(IF o.error = "" THEN "ok" ELSE o.error)
                 ELSE o.error)

\* KubernetesManager(app_name).trusted()
ProbeTrusted ==
    \E o \in K8sOutcomes : Probed("KubernetesManager.trusted", KubernetesManager_trusted(o))

\* workload.active()
ProbeActive ==
    \E o \in ServiceOutcomes :
        Probed("active", SparkHistoryServer_active(o, workload.running))

\* get_app_status(context.s3, context.pushgateway)
ProbeStatus ==
    \E k \in K8sOutcomes, v \in S3Outcomes, a \in ServiceOutcomes :
        ProbedCalls("get_app_status",
                    get_app_status_probed(can_connect, k, s3rel, v, a, workload.running),
                    get_app_status_calls(can_connect, k, s3rel, v))

\* Between two probes a boundary changes its answer, the relation is set or
\* removed, or the supervisor starts or loses the service.
BoundaryChange ==
    /\ \/ can_connect' = ~can_connect /\ UNCHANGED <<trusted, s3_ok, s3rel, workload>>
       \/ trusted' = ~trusted /\ UNCHANGED <<can_connect, s3_ok, s3rel, workload>>
       \/ s3_ok' = ~s3_ok /\ UNCHANGED <<can_connect, trusted, s3rel, workload>>
       \/ /\ s3rel' \in RenderInputs \ {s3rel}
          /\ UNCHANGED <<can_connect, trusted, s3_ok, workload>>
       \/ /\ workload' = [workload EXCEPT !.running = ~workload.running]
          /\ UNCHANGED <<can_connect, trusted, s3_ok, s3rel>>
    /\ probe' = NoProbe
    /\ UNCHANGED <<leader, unit_status, app_status, last>>
    /\ UNCHANGED <<charmVars, restVars>>
    /\ watch' = Watching(<<>>, workload'.running)

NextProbes ==
    \/ ProbeVerify
    \/ ProbeInfoVerify
    \/ ProbeTrusted
    \/ ProbeActive
    \/ ProbeStatus
    \/ BoundaryChange

-----------------------------------------------------------------------------
(* The service-account relations: events/provider.py and relations/spark_sa.py *)

\* everything the steps on the service accounts leave alone
opVars == <<s3rel, can_connect, trusted, s3_ok, hubVars, charmVars, probe>>

REQUIRED_OPTIONS == {"service-account", "namespace"}

\* dict.get(key, default)
Get(d, key, default) == IF key \in DOMAIN d THEN d[key] ELSE default

\* what the requirer of a relation was built to ask for (app-charm/src/charm.py)
Requested(r) ==
    [k \in REQUIRED_OPTIONS |->
        IF k = "namespace" THEN Namespace
        ELSE IF r = "A" THEN AccountNames[1] ELSE AccountNames[2]]

\* a diff that also reports the keys whose value changed as added
diff_added_or_changed(new_data, old_data) ==
    {k \in DOMAIN new_data : k \notin DOMAIN old_data \/ new_data[k] # old_data[k]}

\* diff(event, bucket).added: the keys of the requirer's data the snapshot
\* under "data" does not have
diff_added(new_data, old_data) == (DOMAIN new_data) \ (DOMAIN old_data)

\* a command handed to spark8t.cli.service_account_registry
Registry(verb, username, namespace) ==
    [verb |-> verb, username |-> username, namespace |-> namespace]

\* the end of a step on relation r
SaDone(event, r, err, cmd, emitted) ==
    sa_last' = [SaIdle EXCEPT !.event = event, !.rel = r, !.err = err, !.cmd = cmd,
                              !.emitted = emitted]

\* juju integrate: the relation is established; each side is owed its
\* relation-joined and its first relation-changed
RelationCreated(r) ==
    /\ ~relations[r].up
    /\ relations' = [relations EXCEPT ![r] =
                        [NoRelation EXCEPT !.up = TRUE, !.units = 1,
                                           !.pending = {"joined", "provider", "requirer"}]]
    /\ SaDone("created", r, "", <<>>, FALSE)
    /\ UNCHANGED <<opVars, accounts, secrets, watch>>

\* ServiceAccountRequirer._on_relation_joined and update_connection_info
RequirerJoined(r) ==
    /\ relations[r].up
    /\ "joined" \in relations[r].pending
    /\ \E is_leader \in BOOLEAN :
          LET rel == relations[r]
              req == IF is_leader THEN Merge(rel.req, Requested(r)) ELSE rel.req
          IN  relations' = [relations EXCEPT ![r] =
                  [rel EXCEPT !.req = req,
                              !.pending = (rel.pending \ {"joined"}) \cup
                                          (IF req # rel.req THEN {"provider"} ELSE {})]]
    /\ SaDone("joined", r, "", <<>>, FALSE)
    /\ UNCHANGED <<opVars, accounts, secrets, watch>>

\* the relation-changed hook of the provider with no unit asking whether it leads
ProviderRelationChanged_any_unit(r) ==
    /\ relations[r].up
    /\ "provider" \in relations[r].pending
    /\ LET rel == relations[r]
           added == diff_added(rel.req, rel.data)
           service_account == Get(rel.req, "service-account", "")
           namespace == Get(rel.req, "namespace", "")
           create == Registry("create", service_account, namespace)
       IN  IF "service-account" \in added
           THEN \E ok \in BOOLEAN :
                   IF ok
                   THEN /\ accounts' = accounts \cup
                               {[name |-> service_account, namespace |-> namespace]}
                        /\ watch' = Notified("ADDED", [name |-> service_account,
                                                       namespace |-> namespace])
                        /\ relations' = [relations EXCEPT ![r] =
                               [rel EXCEPT !.data = rel.req,
                                           !.prov = IF leader
                                                    THEN Merge(rel.prov,
                                                           [k \in REQUIRED_OPTIONS |->
                                                              IF k = "namespace" THEN namespace
                                                              ELSE service_account])
                                                    ELSE rel.prov,
                                           !.pending = (rel.pending \ {"provider"})
                                                           \cup {"requirer"}]]
                        /\ SaDone("provider_changed", r, "", <<create>>, FALSE)
                   ELSE /\ SaDone("provider_changed", r, "RuntimeError", <<create>>, FALSE)
                        /\ UNCHANGED <<relations, accounts, watch>>
           ELSE /\ relations' = [relations EXCEPT ![r] =
                       [rel EXCEPT !.data = rel.req,
                                   !.pending = (rel.pending \ {"provider"}) \cup
                                       (IF rel.data # rel.req THEN {"requirer"} ELSE {})]]
                /\ SaDone("provider_changed", r, "", <<>>, FALSE)
                /\ UNCHANGED <<accounts, watch>>
    /\ UNCHANGED <<opVars, secrets>>

\* the requested handler publishing the account before it creates it
ProviderRelationChanged_publish_first(r) ==
    /\ relations[r].up
    /\ "provider" \in relations[r].pending
    /\ LET rel == relations[r]
           added == diff_added(rel.req, rel.data)
           service_account == Get(rel.req, "service-account", "")
           namespace == Get(rel.req, "namespace", "")
           create == Registry("create", service_account, namespace)
       IN  IF ~leader
           THEN /\ relations' = [relations EXCEPT ![r].pending = rel.pending \ {"provider"}]
                /\ SaDone("provider_changed", r, "", <<>>, FALSE)
                /\ UNCHANGED <<accounts, watch>>
           ELSE IF "service-account" \in added
           THEN \E ok \in BOOLEAN :
                   IF ok
                   THEN /\ accounts' = accounts \cup
                               {[name |-> service_account, namespace |-> namespace]}
                        /\ watch' = Notified("ADDED", [name |-> service_account,
                                                       namespace |-> namespace])
                        /\ relations' = [relations EXCEPT ![r] =
                               [rel EXCEPT !.data = rel.req,
                                           !.prov = Merge(rel.prov,
                                                      [k \in REQUIRED_OPTIONS |->
                                                         IF k = "namespace" THEN namespace
                                                         ELSE service_account]),
                                           !.pending = (rel.pending \ {"provider"})
                                                           \cup {"requirer"}]]
                        /\ SaDone("provider_changed", r, "", <<create>>, FALSE)
                   ELSE /\ relations' = [relations EXCEPT ![r] =
                               [rel EXCEPT !.data = rel.req,
                                           !.prov = Merge(rel.prov,
                                                      [k \in REQUIRED_OPTIONS |->
                                                         IF k = "namespace" THEN namespace
                                                         ELSE service_account]),
                                           !.pending = (rel.pending \ {"provider"})
                                                           \cup {"requirer"}]]
                        /\ SaDone("provider_changed", r, "RuntimeError", <<create>>, FALSE)
                        /\ UNCHANGED <<accounts, watch>>
           ELSE /\ relations' = [relations EXCEPT ![r] =
                       [rel EXCEPT !.data = rel.req,
                                   !.pending = (rel.pending \ {"provider"}) \cup
                                       (IF rel.data # rel.req THEN {"requirer"} ELSE {})]]
                /\ SaDone("provider_changed", r, "", <<>>, FALSE)
                /\ UNCHANGED <<accounts, watch>>
    /\ UNCHANGED <<opVars, secrets>>

\* ServiceAccountProvider._on_relation_changed, the account_requested it emits
\* and ServiceAccountsEvents._on_service_account_requested, in one hook: what
\* the hook wrote to the databag is kept only if the hook returns
ProviderRelationChanged(r) ==
    /\ relations[r].up
    /\ "provider" \in relations[r].pending
    /\ LET rel == relations[r]
           added == diff_added(rel.req, rel.data)
           service_account == Get(rel.req, "service-account", "")
           namespace == Get(rel.req, "namespace", "")
           create == Registry("create", service_account, namespace)
       IN  IF ~leader
           THEN /\ relations' = [relations EXCEPT ![r].pending = rel.pending \ {"provider"}]
                /\ SaDone("provider_changed", r, "", <<>>, FALSE)
                /\ UNCHANGED <<accounts, watch>>
           ELSE IF "service-account" \in added
           THEN \E ok \in BOOLEAN :
                   IF ok
                   THEN /\ accounts' = accounts \cup
                               {[name |-> service_account, namespace |-> namespace]}
                        /\ watch' = Notified("ADDED", [name |-> service_account,
                                                       namespace |-> namespace])
                        /\ relations' = [relations EXCEPT ![r] =
                               [rel EXCEPT !.data = rel.req,
                                           !.prov = Merge(rel.prov,
                                                      [k \in REQUIRED_OPTIONS |->
                                                         IF k = "namespace" THEN namespace
                                                         ELSE service_account]),
                                           !.pending = (rel.pending \ {"provider"})
                                                           \cup {"requirer"}]]
                        /\ SaDone("provider_changed", r, "", <<create>>, FALSE)
                   ELSE /\ SaDone("provider_changed", r, "RuntimeError", <<create>>, FALSE)
                        /\ UNCHANGED <<relations, accounts, watch>>
           ELSE /\ relations' = [relations EXCEPT ![r] =
                       [rel EXCEPT !.data = rel.req,
                                   !.pending = (rel.pending \ {"provider"}) \cup
                                       (IF rel.data # rel.req THEN {"requirer"} ELSE {})]]
                /\ SaDone("provider_changed", r, "", <<>>, FALSE)
                /\ UNCHANGED <<accounts, watch>>
    /\ UNCHANGED <<opVars, secrets>>

\* _on_relation_changed of the requirer emitting whatever the provider's data holds
RequirerRelationChanged_always(r) ==
    /\ relations[r].up
    /\ "requirer" \in relations[r].pending
    /\ relations' = [relations EXCEPT ![r] =
            [relations[r] EXCEPT !.pending = relations[r].pending \ {"requirer"},
                                 !.granted = TRUE]]
    /\ SaDone("requirer_changed", r, "", <<>>, TRUE)
    /\ UNCHANGED <<opVars, accounts, secrets, watch>>

\* ServiceAccountRequirer._on_relation_changed with get_service_account_info:
\* account_granted is emitted when the provider's data holds every required option
RequirerRelationChanged(r) ==
    /\ relations[r].up
    /\ "requirer" \in relations[r].pending
    /\ LET rel == relations[r]
           infos == rel.prov
           contains_required_options == \A o \in REQUIRED_OPTIONS : o \in DOMAIN infos
       IN  /\ relations' = [relations EXCEPT ![r] =
                   [rel EXCEPT !.pending = rel.pending \ {"requirer"},
                               !.granted = rel.granted \/ contains_required_options]]
           /\ SaDone("requirer_changed", r, "", <<>>, contains_required_options)
    /\ UNCHANGED <<opVars, accounts, secrets, watch>>

\* the relation once one more unit of the requirer has left it: it ends with
\* its last unit
Departed(rel) ==
    IF rel.units > 1 THEN [rel EXCEPT !.units = rel.units - 1] ELSE NoRelation

\* the released handler deleting every account the registry manages
RelationDeparted_all(r) ==
    /\ relations[r].up
    /\ LET rel == relations[r]
           service_account == Get(rel.req, "service-account", "")
           namespace == Get(rel.req, "namespace", "")
           delete == Registry("delete", service_account, namespace)
       IN  IF ~leader
           THEN /\ relations' = [relations EXCEPT ![r] = NoRelation]
                /\ SaDone("departed", r, "", <<>>, FALSE)
                /\ UNCHANGED <<accounts, watch>>
           ELSE \E ok \in BOOLEAN :
                   IF ok
                   THEN /\ accounts' = {}
                        /\ watch' = watch
                        /\ relations' = [relations EXCEPT ![r] = NoRelation]
                        /\ SaDone("departed", r, "", <<delete>>, FALSE)
                   ELSE /\ SaDone("departed", r, "RuntimeError", <<delete>>, FALSE)
                        /\ UNCHANGED <<relations, accounts, watch>>
    /\ UNCHANGED <<opVars, secrets>>

\* a unit of the requirer leaves, or juju remove-relation takes the units away
\* one by one: ServiceAccountProvider._on_relation_departed, the
\* account_released it emits and ServiceAccountsEvents._on_service_account_released
RelationDeparted(r) ==
    /\ relations[r].up
    /\ LET rel == relations[r]
           service_account == Get(rel.req, "service-account", "")
           namespace == Get(rel.req, "namespace", "")
           account == [name |-> service_account, namespace |-> namespace]
           delete == Registry("delete", service_account, namespace)
       IN  IF ~leader
           THEN /\ relations' = [relations EXCEPT ![r] = Departed(rel)]
                /\ SaDone("departed", r, "", <<>>, FALSE)
                /\ UNCHANGED <<accounts, watch>>
           ELSE \E ok \in BOOLEAN :
                   IF ok
                   THEN /\ accounts' = accounts \ {account}
                        /\ watch' = IF account \in accounts
                                    THEN Notified("DELETED", account) ELSE watch
                        /\ relations' = [relations EXCEPT ![r] = Departed(rel)]
                        /\ SaDone("departed", r, "", <<delete>>, FALSE)
                   ELSE /\ SaDone("departed", r, "RuntimeError", <<delete>>, FALSE)
                        /\ UNCHANGED <<relations, accounts, watch>>
    /\ UNCHANGED <<opVars, secrets>>

\* the most units a requirer has in one relation
MaxUnits == 2

\* juju add-unit on the requirer: one more unit enters the relation, and the
\* provider is owed a relation-changed for it; the new unit's own
\* relation-joined writes nothing, since only the leader writes
\* (update_connection_info)
UnitJoined(r) ==
    /\ relations[r].up
    /\ relations[r].units < MaxUnits
    /\ relations' = [relations EXCEPT ![r] =
            [relations[r] EXCEPT !.units = relations[r].units + 1,
                                 !.pending = relations[r].pending \cup {"provider"}]]
    /\ SaDone("unit_joined", r, "", <<>>, FALSE)
    /\ UNCHANGED <<opVars, accounts, secrets, watch>>

\* ServiceAccountRequirer.update_connection_info called by the requirer's
\* leader with another account name: the provider is owed a relation-changed
\* when the databag changed
RequirerUpdate(r) ==
    /\ relations[r].up
    /\ "service-account" \in DOMAIN relations[r].req
    /\ \E i \in DOMAIN AccountNames :
          LET rel == relations[r]
              req == Merge(rel.req, [k \in {"service-account"} |-> AccountNames[i]])
          IN  /\ req # rel.req
              /\ relations' = [relations EXCEPT ![r] =
                      [rel EXCEPT !.req = req,
                                  !.pending = rel.pending \cup {"provider"}]]
    /\ SaDone("requirer_update", r, "", <<>>, FALSE)
    /\ UNCHANGED <<opVars, accounts, secrets, watch>>

\* the relations of a requirer that is scaled and that changes what it asks for
NextUnits ==
    \/ \E r \in Rels : RelationCreated(r)
    \/ \E r \in Rels : RequirerJoined(r)
    \/ \E r \in Rels : UnitJoined(r)
    \/ \E r \in Rels : RequirerUpdate(r)
    \/ \E r \in Rels : ProviderRelationChanged(r)
    \/ \E r \in Rels : RequirerRelationChanged(r)
    \/ \E r \in Rels : RelationDeparted(r)

NextProvider ==
    \/ \E r \in Rels : RelationCreated(r)
    \/ \E r \in Rels : RequirerJoined(r)
    \/ \E r \in Rels : ProviderRelationChanged(r)
    \/ \E r \in Rels : RequirerRelationChanged(r)
    \/ \E r \in Rels : RelationDeparted(r)
    \/ UpdateEvent

-----------------------------------------------------------------------------
(* The monitor and the secrets: monitor_sa.py, events/configuration_hub.py *)

\* the events the monitor may have still to take
MaxWatch == 2

CONFIGURATION_HUB_LABEL == "app.kubernetes.io/managed-by=configuration-hub"

\* f.readlines(): every line keeps the line break that ends it
RECURSIVE ReadLinesFrom(_, _)
ReadLinesFrom(text, cur) ==
    IF text = <<>> THEN (IF cur = <<>> THEN <<>> ELSE <<cur>>)
    ELSE IF Head(text) = NL
    THEN <<Append(cur, NL)>> \o ReadLinesFrom(Tail(text), <<>>)
    ELSE ReadLinesFrom(Tail(text), Append(cur, Head(text)))

readlines(text) == ReadLinesFrom(text, <<>>)

\* read_configuration_file: of every line that holds "=", the piece before the
\* first "=" is the key and the piece up to the second "=" its value; a later
\* line wins over an earlier one with the same key
read_configuration_file(text) ==
    LET lines == readlines(text)
        set == SelectSeq(lines, LAMBDA l : \E i \in 1..Len(l) : l[i] = EQ)
        key_value(l) == Split(l, EQ)
        LastOf(k) == CHOOSE i \in 1..Len(set) :
                        /\ key_value(set[i])[1] = k
                        /\ \A j \in (i + 1)..Len(set) : key_value(set[j])[1] # k
    IN  [k \in {key_value(set[i])[1] : i \in 1..Len(set)} |->
            key_value(set[LastOf(k)])[2]]

SecretName(sa_name) == <<"configuration-hub-conf-", sa_name>>

\* Secret.from_dict({... "metadata": {"name", "namespace"}, "stringData": options})
Secret(sa, options) ==
    [name |-> SecretName(sa.name), namespace |-> sa.namespace,
     data |-> options, labels |-> {}]

\* the end of one turn of the monitor's loop
Watched(ev, err, options) ==
    sa_last' = [SaIdle EXCEPT !.event = "watch", !.err = err, !.op = ev.op,
                              !.sa = ev.sa, !.options = options]

\* One turn of the loop of monitor_sa.py: the process takes the next event of
\* its watch, reads the configuration file and, if that gave any option,
\* replaces the secret of the event's account.
MonitorEvent ==
    /\ workload.running
    /\ watch # <<>>
    /\ LET ev == Head(watch)
       IN  IF ~exists(workload, spark_properties)
           THEN /\ workload' = [workload EXCEPT !.running = FALSE]
                /\ watch' = <<>>
                /\ Watched(ev, "FileNotFoundError", NoData)
                /\ UNCHANGED secrets
           ELSE \E options \in {read_configuration_file(workload.files[spark_properties])} :
                   /\ secrets' =
                         IF DOMAIN options # {}
                         THEN {s \in secrets : ~(/\ s.name = SecretName(ev.sa.name)
                                                 /\ s.namespace = ev.sa.namespace)}
                                  \cup {Secret(ev.sa, options)}
                         ELSE secrets
                   /\ watch' = Tail(watch)
                   /\ Watched(ev, "", options)
                   /\ UNCHANGED workload
    /\ UNCHANGED <<s3rel, can_connect, trusted, s3_ok, leader, unit_status, app_status, last>>
    /\ UNCHANGED <<charmVars, probe, relations, accounts>>

\* service_account_registry create, run by a user of the cluster
RegistryCreate ==
    \E name \in {AccountNames[i] : i \in 1..Len(AccountNames)} :
        /\ Account(name) \notin accounts
        /\ Len(watch) < MaxWatch
        /\ accounts' = accounts \cup {Account(name)}
        /\ watch' = Notified("ADDED", Account(name))
        /\ sa_last' = [SaIdle EXCEPT !.event = "create",
                                     !.cmd = <<Registry("create", name, Namespace)>>]
        /\ UNCHANGED <<opVars, relations, secrets>>

\* service_account_registry delete, run by a user of the cluster
RegistryDelete ==
    \E name \in {AccountNames[i] : i \in 1..Len(AccountNames)} :
        /\ Account(name) \in accounts
        /\ Len(watch) < MaxWatch
        /\ accounts' = accounts \ {Account(name)}
        /\ watch' = Notified("DELETED", Account(name))
        /\ sa_last' = [SaIdle EXCEPT !.event = "delete",
                                     !.cmd = <<Registry("delete", name, Namespace)>>]
        /\ UNCHANGED <<opVars, relations, secrets>>

\* ConfigurationHubEvents._remove_resources (the stop event):
\* kubectl delete secret -l CONFIGURATION_HUB_LABEL --all-namespaces
StopEvent ==
    \E fails \in BOOLEAN :
        /\ secrets' = IF fails THEN secrets
                      ELSE {s \in secrets : CONFIGURATION_HUB_LABEL \notin s.labels}
        /\ sa_last' = [SaIdle EXCEPT !.event = "stop",
                                     !.err = IF fails THEN "ExecError" ELSE ""]
        /\ UNCHANGED <<opVars, relations, accounts, watch>>

\* the handler returns, and no boundary changes its answer while it runs
Steady ==
    /\ last'.err = ""
    /\ can_connect' = can_connect
    /\ trusted' = trusted
    /\ s3_ok' = s3_ok
    /\ workload'.running = last'.up

NextSecrets ==
    \/ S3CredentialChanged /\ Steady
    \/ S3CredentialGone /\ Steady
    \/ RegistryCreate
    \/ RegistryDelete
    \/ MonitorEvent
    \/ StopEvent

-----------------------------------------------------------------------------
(* Initial state and specifications *)

\* the layer of the image: tests/unit/conftest.py
BasePlan == [k \in {SPARK_PROPERTIES_FILE} |-> <<"/etc/hub/conf/spark-properties.conf">>]

NoFiles == [p \in {} |-> <<>>]

Init ==
    /\ s3rel = NoRel
    /\ can_connect = FALSE
    /\ trusted = FALSE
    /\ s3_ok = FALSE
    /\ leader \in BOOLEAN
    /\ workload = [running |-> FALSE, files |-> NoFiles, plan |-> BasePlan]
    /\ unit_status = Unknown
    /\ app_status = Unknown
    /\ last = Idle
    /\ charm_status = Unknown
    /\ conf_file = NoConfFile
    /\ pid = 0
    /\ procs = {}
    /\ charm_last = CharmIdle
    /\ probe = NoProbe
    /\ relations = [r \in Rels |-> NoRelation]
    /\ accounts = {}
    /\ secrets = {}
    /\ watch = <<>>
    /\ sa_last = SaIdle

\* the signals of the push-gateway relation among those of the S3 relation
NextPushgateway ==
    \/ PushgatewayChanged
    \/ S3CredentialChanged
    \/ S3CredentialGone
    \/ EnvChange

Next ==
    \/ UpdateEvent
    \/ PebbleReady
    \/ S3CredentialChanged
    \/ S3CredentialGone
    \/ EnvChange

Spec == Init /\ [][Next]_vars

SpecPushgateway == Init /\ [][NextPushgateway]_vars

SpecCharm == Init /\ [][NextCharm]_vars

SpecWorkload == Init /\ [][NextWorkload]_vars

SpecProbes == Init /\ [][NextProbes]_vars

\* the operator where Pebble answers, trust is granted and the credentials
\* the relation will carry are valid
InitSecrets ==
    /\ s3rel = NoRel
    /\ can_connect = TRUE
    /\ trusted = TRUE
    /\ s3_ok = TRUE
    /\ leader \in BOOLEAN
    /\ workload = [running |-> FALSE, files |-> NoFiles, plan |-> BasePlan]
    /\ unit_status = Unknown
    /\ app_status = Unknown
    /\ last = Idle
    /\ charm_status = Unknown
    /\ conf_file = NoConfFile
    /\ pid = 0
    /\ procs = {}
    /\ charm_last = CharmIdle
    /\ probe = NoProbe
    /\ relations = [r \in Rels |-> NoRelation]
    /\ accounts = {}
    /\ secrets = {}
    /\ watch = <<>>
    /\ sa_last = SaIdle

SpecSecrets == InitSecrets /\ [][NextSecrets]_vars

SpecProvider == Init /\ [][NextProvider]_vars

SpecUnits == Init /\ [][NextUnits]_vars

\* Juju hands every unit the relation-changed hooks it owes it
SpecProviderLive ==
    /\ Init
    /\ [][NextProvider]_vars
    /\ \A r \in Rels : WF_vars(RequirerRelationChanged(r))

-----------------------------------------------------------------------------
(* Properties *)

\* a handler of the event-handler draft returned and set the unit status
Handled ==
    /\ last.event \in {"update_status", "pebble_ready", "s3_changed", "s3_gone"}
    /\ last.err = ""

\* the text of the spark-properties file, empty while there is none
ConfText ==
    IF spark_properties \in DOMAIN workload.files
    THEN workload.files[spark_properties]
    ELSE <<>>

\* the keys the lines of a text start with
KeysIn(text) == {Lines(text)[i][1] : i \in 1..Len(Lines(text))}

\* the boundary calls the last handler's body made, in order
Ops == [i \in 1..Len(last.log) |-> last.log[i].op]

UpdateOrder == <<"stop", spark_properties, ENV_FILE, "add_layer", "restart">>

\* C1: whatever the other inputs, the status is WAITING_PEBBLE when ready() is
\* false, and NOT_TRUSTED when ready() is true and trusted() is false.
C1_StatusPrecedence ==
    /\ \A t \in BOOLEAN, v \in BOOLEAN, a \in BOOLEAN, s \in RenderInputs :
          /\ get_app_status(FALSE, t, s, v, a) = "WAITING_PEBBLE"
          /\ get_app_status(TRUE, FALSE, s, v, a) = "NOT_TRUSTED"
    /\ Handled =>
          /\ ~last.obs.ready => unit_status = "WAITING_PEBBLE"
          /\ last.obs.ready /\ ~last.obs.trusted => unit_status = "NOT_TRUSTED"

C1_Witness ==
    /\ Handled
    /\ last.obs.ready /\ ~last.obs.trusted
    /\ last.obs.s3 /\ ~last.obs.verify /\ ~last.obs.active
    /\ unit_status = "NOT_TRUSTED"

\* C2: with ready and trusted, the status is INVALID_CREDENTIALS iff S3 is
\* present and verify() is false, else NOT_RUNNING iff the service is not
\* active, else ACTIVE; ACTIVE iff ready, trusted, (S3 absent or verify) and
\* the service active.
C2_CredentialsThenService ==
    Handled =>
        LET o == last.obs
            bad == o.s3 /\ ~o.verify
        IN  /\ o.ready /\ o.trusted =>
                /\ unit_status = "INVALID_CREDENTIALS" <=> bad
                /\ unit_status = "NOT_RUNNING" <=> ~bad /\ ~o.active
                /\ unit_status = "ACTIVE" <=> ~bad /\ o.active
            /\ unit_status = "ACTIVE" <=>
                  o.ready /\ o.trusted /\ (~o.s3 \/ o.verify) /\ o.active

C2_Witness ==
    /\ Handled
    /\ last.obs.ready /\ last.obs.trusted
    /\ last.obs.s3 /\ ~last.obs.verify /\ ~last.obs.active
    /\ unit_status = "INVALID_CREDENTIALS"

\* C3: every status function returns a member of its Status enumeration for
\* every input, S3 absent included, and never fails.
C3_StatusTotal ==
    /\ Handled => unit_status \in HubStatus
    /\ charm_last.event # "none" => charm_last.result \in CharmStatus

\* C4: update calls stop, writes the configuration file, sets the
\* environment, then starts; both files are written with the service stopped.
C4_UpdateOrder ==
    last.upd.ran =>
        /\ Len(Ops) <= Len(UpdateOrder)
        /\ Ops = SubSeq(UpdateOrder, 1, Len(Ops))
        /\ last.err = "" => Ops = UpdateOrder
        /\ \A i \in 2..Len(Ops) : ~last.log[i].running

C4_Witness ==
    /\ last.upd.ran /\ last.err = ""
    /\ Ops = UpdateOrder
    /\ last.log[1].running

\* C5: when the write of the configuration file or start() fails, update
\* makes no further call, the error leaves update, and the service is stopped.
C5_FailureLeavesStopped ==
    last.upd.ran /\ last.upd.fault \in {"write", "add_layer", "restart"} =>
        /\ last.err # ""
        /\ ~workload.running
        /\ "restart" \notin {Ops[i] : i \in 1..Len(Ops)}
        /\ last.upd.fault = "write" => Ops = <<"stop">>
        /\ last.upd.fault = "add_layer" => Ops = SubSeq(UpdateOrder, 1, 3)
        /\ last.upd.fault = "restart" => Ops = SubSeq(UpdateOrder, 1, 4)

C5_Witness ==
    /\ last.upd.ran /\ last.upd.fault = "write"
    /\ last.err = "PathError"
    /\ last.log[1].running
    /\ ConfText # <<>>
    /\ ~workload.running

\* C6: start() without the spark-properties file raises FileNotFoundError and
\* does not restart the service; the service is restarted only when the file
\* exists.
C6_StartNeedsConf ==
    last.event = "start" =>
        LET ops == {Ops[i] : i \in 1..Len(Ops)}
            conf == spark_properties \in DOMAIN workload.files
        IN  /\ ~conf => /\ last.err # ""
                        /\ "restart" \notin ops
                        /\ workload.running = last.up
                        /\ "add_layer" \in ops => last.err = "FileNotFoundError"
            /\ "restart" \in ops => conf

C6_Witness ==
    /\ last.event = "start"
    /\ spark_properties \notin DOMAIN workload.files
    /\ last.err = "FileNotFoundError"

\* what an update left when its body returned
AfterBody == [running |-> last.up, files |-> workload.files, plan |-> workload.plan]

\* C7: an update that follows the same update (same input, same outcome of the
\* boundary calls) leaves the configuration file, the persisted environment,
\* the plan and the running state as the first left them.
C7_Idempotent == [][last'.repeat => AfterBody' = AfterBody]_vars

C7_Witness ==
    /\ last.repeat /\ last.err = ""
    /\ last.upd.s3 # NoRel
    /\ workload.running

\* the lines the related credentials give the configuration file
S3Lines ==
    { <<K_ENDPOINT, EQ>> \o s3rel.endpoint,
      <<K_SECRET, EQ>> \o s3rel.secret_key,
      <<K_EVENTLOG_DIR, EQ, "s3a://">> \o s3rel.bucket \o <<"/">> \o s3rel.path }

\* a credentials-changed handler returned and verify() was false
ChangedUnverified == Handled /\ last.event = "s3_changed" /\ ~last.obs.verify

C10_HttpsRendersSsl ==
    /\ \A s3 \in S3Infos :
          StartsWith(s3.endpoint, <<"h", "t", "t", "p", "s", ":">>) =>
              /\ HasLine(HubContents(s3), <<K_ENDPOINT, EQ>> \o s3.endpoint)
              /\ HasLine(HubContents(s3), <<K_SSL, EQ, "true">>)
    /\ /\ charm_last.event \in {"s3_changed", "config_changed"}
       /\ charm_last.result = "ACTIVE"
       /\ StartsWith(s3rel.endpoint, <<"h", "t", "t", "p", "s", ":">>)
       => /\ charm_status = "ACTIVE"
          /\ HasLine(conf_file.text, <<K_ENDPOINT, EQ>> \o s3rel.endpoint)
          /\ HasLine(conf_file.text, <<K_SSL, EQ, "true">>)

\* C11: with S3 absent, to_dict() has exactly the base keys and no S3-derived
\* key, the file update writes holds none, and ready, trusted and active give
\* ACTIVE.
C11_AbsentRendersBase ==
    /\ DOMAIN HubToDict(NoRel) = DOMAIN HubBaseConf
    /\ DOMAIN HubToDict(NoRel) \cap S3Keys = {}
    /\ last.upd.ran /\ last.upd.s3 = NoRel /\ Len(Ops) >= 2 =>
          /\ KeysIn(ConfText) \subseteq DOMAIN HubBaseConf
          /\ KeysIn(ConfText) \cap S3Keys = {}
    /\ Handled /\ ~last.obs.s3 /\ last.obs.ready /\ last.obs.trusted /\ last.obs.active =>
          unit_status = "ACTIVE"

C11_Witness ==
    /\ Handled /\ last.event = "pebble_ready"
    /\ last.upd.s3 = NoRel
    /\ Ops = UpdateOrder
    /\ spark_properties \in DOMAIN workload.files
    /\ unit_status = "ACTIVE"

\* the place of a key in ascending key order
Rank(key) == CHOOSE i \in 1..Len(KeysAscending) : KeysAscending[i] = key

\* text is the key=value lines of the keys of dict_content whose value is not
\* empty: one line each, keys strictly ascending, single line breaks between
\* the lines and none at either end
WellFormed(text, dict_content) ==
    LET ls == Lines(text)
        keys == {k \in DOMAIN dict_content : ~Falsy(dict_content[k])}
    IN  /\ Len(ls) = Cardinality(keys)
        /\ \A i \in 1..Len(ls) :
              /\ Len(ls[i]) >= 3
              /\ ls[i][1] \in keys
              /\ ls[i][2] = EQ
              /\ SubSeq(ls[i], 3, Len(ls[i])) = dict_content[ls[i][1]]
        /\ \A i \in 1..Len(ls), j \in 1..Len(ls) :
              i < j => Rank(ls[i][1]) < Rank(ls[j][1])
        /\ text # <<>> => text[1] # NL /\ text[Len(text)] # NL
        /\ \A i \in 1..(Len(text) - 1) : ~(text[i] = NL /\ text[i + 1] = NL)

\* C12: for every input, contents is one key=value line per key of to_dict()
\* whose value is not empty, in strictly ascending key order, joined by single
\* line breaks, with no blank line and no trailing line break.
C12_ContentsFormat ==
    /\ \A s3 \in AllInputs :
          /\ WellFormed(HubContents(s3), HubToDict(s3))
          /\ WellFormed(CharmContents(s3), CharmToDict(s3))
    /\ last.event = "write" /\ last.err = "" =>
          \E s3 \in AllInputs : WellFormed(ConfText, HubToDict(s3))

C12_Witness ==
    /\ last.event = "write" /\ last.err = ""
    /\ K_SECRET \in KeysIn(ConfText)
    /\ K_ACCESS \notin KeysIn(ConfText)
    /\ Len(Lines(ConfText)) >= 2

\* the endpoint line a written file holds, with the SSL flag the claim gives it
EndpointFlags ==
    { <<HttpsX, "true">>, <<HttpX443, "true">>, <<HttpX80, "false">>,
      <<DefaultEndpoint, "true">> }

\* C13: the SSL flag is "true" for an absent endpoint, an endpoint that starts
\* with https: and an endpoint that holds :443, and "false" otherwise; the
\* file written for an endpoint carries that flag.
C13_SslEnabled ==
    /\ ssl_enabled(None) = <<"true">>
    /\ ssl_enabled(HttpsX) = <<"true">>
    /\ ssl_enabled(HttpX443) = <<"true">>
    /\ ssl_enabled(HttpX80) = <<"false">>
    /\ last.event = "write" /\ last.err = "" =>
          \A ef \in EndpointFlags :
              HasLine(ConfText, <<K_ENDPOINT, EQ>> \o ef[1]) =>
                  HasLine(ConfText, <<K_SSL, EQ, ef[2]>>)

C13_Witness ==
    /\ last.event = "write" /\ last.err = ""
    /\ HasLine(ConfText, <<K_ENDPOINT, EQ>> \o HttpX443)
    /\ HasLine(ConfText, <<K_SSL, EQ, "true">>)

\* C14: when the write or the start of update fails inside a handler, the
\* service is left stopped and the unit status is the non-ACTIVE status of the
\* current inputs, not the status reported before.
C14_FailureReported ==
    last.upd.ran /\ last.upd.fault \in {"write", "add_layer", "restart"} =>
        /\ ~workload.running
        /\ unit_status \in HubStatus \ {"ACTIVE"}
        /\ unit_status = StatusIn(Env(workload), s3rel)

\* C15: verify() returns false for every failure of the storage boundary,
\* failures while creating the client or writing the CA file included, lets no
\* exception escape, and returns true only when list_buckets succeeds.
C15_VerifyTotal ==
    probe.call \in {"S3Manager.verify", "S3ConnectionInfo.verify"} =>
        /\ probe.result \in Answers
        /\ probe.result = "True" => s3_ok

\* C16: trusted() gives true when the cluster-wide list succeeds and false on
\* an API authorization error, and no failure of the Kubernetes boundary
\* leaves it, or get_app_status, as an exception.
C16_TrustedNeverThrows ==
    /\ probe.call = "KubernetesManager.trusted" =>
          /\ probe.result \in Answers
          /\ probe.result = "True" <=> trusted
    /\ probe.call = "get_app_status" =>
          probe.result \notin {"ConfigError", "ConnectError"}

\* C17: active() is true iff the supervisor reports the service running, and
\* false, without raising, when the supervisor is unreachable or does not
\* know the service.
C17_ActiveTotal ==
    probe.call = "active" =>
        /\ probe.result \in Answers
        /\ probe.result = "True" <=> can_connect /\ workload.running

\* partial laid over prev: the keys partial gives None are gone, the other
\* keys of partial have its values, every other key keeps the value of prev
Override(prev, partial) ==
    [k \in ((DOMAIN prev) \cup (DOMAIN partial))
              \ {x \in DOMAIN partial : partial[x] = None} |->
        IF k \in DOMAIN partial THEN partial[k] ELSE prev[k]]

\* set_environment returned
EnvSet(l) == l.event = "set_environment" /\ l.err = ""

\* the lines of the environment file, read as key=value
EnvFileLines(w) == {Lines(w.files[ENV_FILE])[i] : i \in 1..Len(Lines(w.files[ENV_FILE]))}

\* C18: set_environment(partial) leaves the previous mapping overridden by
\* partial, without the keys partial maps to None and without any None value,
\* and writes exactly that mapping to the environment file.
C18_SetEnvironment ==
    [][EnvSet(last') =>
         LET new == last'.upd.envs
         IN  /\ \A k \in DOMAIN new : new[k] # None
             /\ ENV_FILE \in DOMAIN workload'.files
             /\ EnvFileLines(workload') = {<<k, EQ>> \o new[k] : k \in DOMAIN new}
             /\ Len(Lines(workload'.files[ENV_FILE])) = Cardinality(DOMAIN new)
             /\ ENV_FILE \notin DOMAIN workload.files =>
                   new = Override(EmptyDict, last'.upd.arg)
             /\ EnvSet(last) => new = Override(last.upd.envs, last'.upd.arg)]_vars

C18_Witness ==
    /\ EnvSet(last)
    /\ last.upd.arg = [k \in {SPARK_PROPERTIES_FILE} |-> None]
    /\ DOMAIN last.upd.envs = {JAVA_HOME}
    /\ EnvFileLines(workload) = {<<JAVA_HOME, EQ, "/opt/java">>}

\* the calls the last operation made on Pebble and the filesystem
OpsOf(l) == {l.log[i].op : i \in 1..Len(l.log)}

\* the environment the environment file of w holds is exactly plan
OnDisk(w, plan) ==
    IF ENV_FILE \in DOMAIN w.files
    THEN /\ EnvFileLines(w) = {<<k, EQ>> \o plan[k] : k \in DOMAIN plan}
         /\ Len(Lines(w.files[ENV_FILE])) = Cardinality(DOMAIN plan)
    ELSE plan = EmptyDict

\* C19: set_environment changes neither the plan nor the running service; the
\* plan changes only in start()/restart(), which give it the environment that
\* is current then.
C19_EnvironmentOnNextStart ==
    [][/\ last'.event = "set_environment" =>
              /\ workload'.plan = workload.plan
              /\ workload'.running = workload.running
       /\ workload'.plan # workload.plan => last'.event \in {"start", "restart"}
       /\ last'.event \in {"start", "restart"} /\ "add_layer" \in OpsOf(last') =>
              OnDisk(workload', workload'.plan)]_vars

C19_Witness ==
    /\ EnvSet(last)
    /\ workload.running
    /\ JAVA_HOME \in DOMAIN last.upd.envs
    /\ workload.plan # last.upd.envs

RestartOrder == <<"stop", "add_layer", "restart">>

\* C20: restart() is stop() then start(); when both succeed the service runs
\* with the current layer, and when start() fails the failure is raised and
\* the service is left stopped.
C20_RestartStopsThenStarts ==
    last.event = "restart" =>
        /\ Len(Ops) <= Len(RestartOrder)
        /\ Ops = SubSeq(RestartOrder, 1, Len(Ops))
        /\ last.err = "" =>
              /\ Ops = RestartOrder
              /\ workload.running
              /\ OnDisk(workload, workload.plan)
        /\ last.err # "" => Ops # RestartOrder
        /\ last.err # "" /\ Ops # <<>> => ~workload.running
        /\ last.err # "" /\ Ops = <<>> => workload.running = last.up

C20_Witness ==
    /\ last.event = "restart"
    /\ last.up
    /\ last.err = "ChangeError"
    /\ Ops = <<"stop", "add_layer">>
    /\ ~workload.running

\* C21: stop() is idempotent.  While Pebble answers, stop() on a service that
\* is already stopped raises nothing and leaves the container as it found it;
\* a stop() that returned leaves the service stopped and the files and the
\* plan alone, so that a second stop() changes nothing the first one left.
C21_StopIdempotent ==
    [][LET c == stop(Begin(workload), "none")
           again == stop(Begin(workload'), "none")
           returned == last'.event = "stop" /\ last'.err = ""
       IN  /\ ~workload.running =>
                  /\ c.err = ""
                  /\ Persisted(c, [running |-> c.running]) = workload
           /\ returned =>
                  /\ ~workload'.running
                  /\ workload'.files = workload.files
                  /\ workload'.plan = workload.plan
                  /\ again.err = ""
                  /\ Persisted(again, [running |-> again.running]) = workload'
           /\ (returned /\ ~workload.running) => workload' = workload]_vars

\* stop() returned on a service that an earlier stop() had already stopped
C21_Witness ==
    /\ last.event = "stop"
    /\ last.err = ""
    /\ ~last.up
    /\ ~workload.running
    /\ spark_properties \in DOMAIN workload.files

\* C23: one signal asks each outer boundary at most once: a handler that
\* returned has made at most one S3 verification and at most one permission
\* check, on the leader as on any other unit.
C23_SingleProbe ==
    Handled => (last.probes.verify <= 1 /\ last.probes.trusted <= 1)

\* the status the inputs of one observation call for
LevelStatus(o) ==
    IF ~o.ready THEN "WAITING_PEBBLE"
    ELSE IF ~o.trusted THEN "NOT_TRUSTED"
    ELSE IF o.s3 /\ ~o.verify THEN "INVALID_CREDENTIALS"
    ELSE IF ~o.active THEN "NOT_RUNNING"
    ELSE "ACTIVE"

\* C24: the status is level-triggered.  Whatever signal a handler returned
\* from and whatever statuses were reported before it, the unit status it
\* leaves is the one the inputs it observed call for: readiness, trust, the
\* presence of the relation, the verification and the service state.
C24_LevelTriggered ==
    [][(Handled' /\ last' # last) => unit_status' = LevelStatus(last'.obs)]_vars

\* a handler returned ACTIVE right after INVALID_CREDENTIALS had been reported
\* for the same relation: only the answer of verify() changed
C24_Witness ==
    /\ Handled
    /\ last.event = "update_status"
    /\ last.obs.s3 /\ last.obs.verify
    /\ unit_status = "ACTIVE"
    /\ leader /\ app_status = "INVALID_CREDENTIALS"

\* C22: only the leader changes shared state.  On a unit that is not the
\* leader no hook of the service-account relation runs a registry command,
\* creates or deletes an account, or writes the provider's application
\* databag, and no handler writes the application status; a decorated handler
\* that returns there still sets the unit status from what it observed.
C22_LeaderOnly ==
    [][~leader =>
          /\ sa_last'.event \in {"provider_changed", "departed"} => sa_last'.cmd = <<>>
          /\ accounts' = accounts
          /\ \A r \in Rels :
                relations'[r].up =>
                    /\ relations'[r].prov = relations[r].prov
                    /\ relations'[r].data = relations[r].data
          /\ app_status' = app_status
          /\ (Handled' /\ last' # last) => unit_status' = LevelStatus(last'.obs)]_vars

\* a unit that is not the leader was handed the requirer's request and has
\* handled update-status: no account, no data of its own, its unit status set
C22_Witness ==
    /\ ~leader
    /\ sa_last.event = "provider_changed"
    /\ sa_last.rel = "A"
    /\ "service-account" \in DOMAIN relations["A"].req
    /\ "provider" \notin relations["A"].pending
    /\ relations["A"].prov = NoData
    /\ accounts = {}
    /\ Handled
    /\ unit_status = "WAITING_PEBBLE"
    /\ app_status = Unknown

\* the provider's data of relation r holds every required option
Provided(r) == \A o \in REQUIRED_OPTIONS : o \in DOMAIN relations[r].prov

\* C29: the grant protocol.  When the leader's relation-changed hook has run
\* the registry's create for the request of a relation and the command
\* succeeded, the account exists, the provider's application databag holds
\* the service-account and namespace the requirer asked for, and the requirer
\* is owed a relation-changed hook; while the relation stays, the requirer
\* then emits account_granted.  account_granted is never emitted while a
\* required option is missing from the provider's data.
C29_GrantProtocol ==
    /\ [][\A r \in Rels :
            (/\ sa_last' # sa_last
             /\ sa_last'.event = "provider_changed"
             /\ sa_last'.rel = r
             /\ sa_last'.err = ""
             /\ sa_last'.cmd # <<>>) =>
                /\ leader
                /\ sa_last'.cmd = <<Registry("create", relations[r].req["service-account"],
                                             relations[r].req["namespace"])>>
                /\ [name |-> relations[r].req["service-account"],
                    namespace |-> relations[r].req["namespace"]] \in accounts'
                /\ relations'[r].prov = relations[r].req
                /\ "requirer" \in relations'[r].pending]_vars
    /\ [](\A r \in Rels :
            /\ (sa_last.event = "requirer_changed" /\ sa_last.rel = r /\ sa_last.emitted)
                  => Provided(r)
            /\ relations[r].granted => Provided(r)
            /\ (relations[r].up /\ Provided(r) /\ ~relations[r].granted)
                  => "requirer" \in relations[r].pending)
    /\ \A r \in Rels :
          (relations[r].up /\ Provided(r)) ~> (relations[r].granted \/ ~relations[r].up)

\* the requirer of relation A emitted account_granted for the account the
\* leader created, after a relation-changed hook in which it could not
C29_Witness ==
    /\ leader
    /\ sa_last.event = "requirer_changed"
    /\ sa_last.rel = "A"
    /\ sa_last.emitted
    /\ relations["A"].granted
    /\ relations["A"].prov = Requested("A")
    /\ Account("sa1") \in accounts
    /\ relations["B"].up
    /\ ~Provided("B")
    /\ "requirer" \notin relations["B"].pending

\* the account the requirer of relation r asks for
AccountOf(r) == Account(Requested(r)["service-account"])

\* C30: a release touches the released relation alone.  A step on one
\* relation leaves the other relation's data as it was and neither creates
\* nor deletes the other relation's account, so adding B keeps sa1; the
\* leader's release of a relation runs one registry delete, for exactly the
\* service account and namespace of that relation, and only that account goes.
C30_ReleaseIsLocal ==
    [][\A r \in Rels :
          (sa_last' # sa_last /\ sa_last'.rel = r) =>
              /\ \A q \in Rels \ {r} :
                    /\ relations'[q] = relations[q]
                    /\ AccountOf(q) \in accounts' <=> AccountOf(q) \in accounts
              /\ (sa_last'.event = "departed" /\ sa_last'.err = "" /\ leader) =>
                    LET username == Get(relations[r].req, "service-account", "")
                        namespace == Get(relations[r].req, "namespace", "")
                    IN  /\ sa_last'.cmd = <<Registry("delete", username, namespace)>>
                        /\ accounts' = accounts \ {[name |-> username,
                                                    namespace |-> namespace]}
                        /\ ~relations'[r].up]_vars

\* relation A was released while B was granted: sa1 is gone, sa2 and B's data stay
C30_Witness ==
    /\ leader
    /\ sa_last.event = "departed"
    /\ sa_last.rel = "A"
    /\ sa_last.err = ""
    /\ sa_last.cmd = <<Registry("delete", "sa1", Namespace)>>
    /\ Account("sa1") \notin accounts
    /\ Account("sa2") \in accounts
    /\ relations["B"].granted
    /\ relations["B"].prov = Requested("B")

\* the secrets that bear the name the monitor gives the secret of account sa
SecretsOf(sa) ==
    {s \in secrets : s.name = SecretName(sa.name) /\ s.namespace = sa.namespace}

\* C25: the lifecycle of the secret of a service account.  When the monitor
\* has taken the event of an account that was created or granted, there is
\* exactly one secret configuration-hub-conf-<sa> in its namespace and it
\* holds the configuration read for that event; when it has taken the event
\* of an account that was released or deleted, there is no such secret.
C25_SecretLifecycle ==
    (sa_last.event = "watch" /\ sa_last.err = "") =>
        IF sa_last.op = "DELETED"
        THEN SecretsOf(sa_last.sa) = {}
        ELSE /\ Cardinality(SecretsOf(sa_last.sa)) = 1
             /\ \A s \in SecretsOf(sa_last.sa) : s.data = sa_last.options

\* the entries of a dict whose value is not empty, keyed by the text of the key
Kept(d) ==
    [k \in {<<x>> : x \in {y \in DOMAIN d : ~Falsy(d[y])}} |-> d[k[1]]]

\* C26: reading back the file the renderer wrote gives exactly the non-empty
\* entries of to_dict(), every value as it was rendered (a value that holds
\* "=" included, no line break added), and that mapping is the string data of
\* the secret the monitor then creates.
C26_ReadBack ==
    [][(/\ watch # <<>>
        /\ watch' = Tail(watch)
        /\ workload' = workload
        /\ last' = last
        /\ sa_last'.event = "watch"
        /\ sa_last'.err = "") =>
            \A s3 \in RenderInputs :
                ConfText = HubContents(s3) =>
                    /\ sa_last'.options = Kept(HubToDict(s3))
                    /\ DOMAIN sa_last'.options # {} =>
                          \E s \in secrets' :
                              /\ s.name = SecretName(sa_last'.sa.name)
                              /\ s.namespace = sa_last'.sa.namespace
                              /\ s.data = Kept(HubToDict(s3))]_vars

\* C27: once the stop event has been handled no secret that the monitor
\* created is left: the deletion by label of the stop handler took them all.
C27_StopRemovesSecrets ==
    (sa_last.event = "stop" /\ sa_last.err = "") =>
        \A name \in {AccountNames[i] : i \in 1..Len(AccountNames)} :
            SecretsOf(Account(name)) = {}

\* the monitor runs and has taken every event of its watch
MonitorIdle == workload.running /\ watch = <<>>

S3KeyTexts == {<<k>> : k \in S3Keys \cup {K_SSL}}

\* C28: once the removal of the S3 relation has been handled and the monitor
\* is idle, the secret of every account that exists holds no key derived from
\* S3; once the relation is back, the status ACTIVE and the monitor idle, the
\* secret of every account holds spark.hadoop.fs.s3a.access.key again.
C28_SecretsFollowRelation ==
    /\ (Handled /\ last.event = "s3_gone" /\ s3rel = NoRel /\ MonitorIdle) =>
          \A a \in accounts : \A s \in SecretsOf(a) : DOMAIN s.data \cap S3KeyTexts = {}
    /\ (/\ Handled /\ last.event = "s3_changed" /\ s3rel # NoRel
        /\ unit_status = "ACTIVE" /\ MonitorIdle) =>
          (~Falsy(s3rel.access_key) =>
              \A a \in accounts :
                 /\ SecretsOf(a) # {}
                 /\ \A s \in SecretsOf(a) : <<K_ACCESS>> \in DOMAIN s.data)

\* C33: on the leader the application status and the unit status that a
\* handler leaves are the same, whatever the boundaries answer while the
\* signal is handled.
C33_AppEqualsUnit ==
    (Handled /\ leader) => app_status = unit_status

\* C34: a start() that fails because the configuration file is missing
\* leaves the plan of the container exactly as it was before the call.
C34_FailedStartKeepsPlan ==
    [][(last'.event = "start" /\ last'.err = "FileNotFoundError") =>
            workload'.plan = workload.plan]_vars

\* C35: one call of get_app_status makes its probes in the order of their
\* precedence and stops at the first that fails: the permission check only
\* when the workload is ready, the verification only when it is ready and
\* trusted with S3 related, active() only when every earlier check passed,
\* and no verification when S3 is not related.
C35_ProbeOrder ==
    probe.call = "get_app_status" =>
        /\ probe.calls \in {<<"ready">>, <<"ready", "trusted">>,
                            <<"ready", "trusted", "verify">>,
                            <<"ready", "trusted", "active">>,
                            <<"ready", "trusted", "verify", "active">>}
        /\ Len(probe.calls) > 1 <=> can_connect
        /\ (\E i \in DOMAIN probe.calls : probe.calls[i] = "verify") =>
               can_connect /\ trusted /\ s3rel # NoRel
        /\ s3rel = NoRel => \A i \in DOMAIN probe.calls : probe.calls[i] # "verify"
        /\ (\E i \in DOMAIN probe.calls : probe.calls[i] = "active") =>
               can_connect /\ trusted /\ (s3rel # NoRel => s3_ok)
        /\ probe.result \in {"ACTIVE", "NOT_RUNNING"} =>
               probe.calls[Len(probe.calls)] = "active"

C35_Witness ==
    /\ probe.call = "get_app_status"
    /\ probe.calls = <<"ready", "trusted", "verify">>
    /\ probe.result = "INVALID_CREDENTIALS"

ProviderChangedStep(r) ==
    /\ sa_last'.event = "provider_changed"
    /\ sa_last'.rel = r
    /\ "provider" \in relations[r].pending

C37_ReleaseOnRemoval ==
    [][\A r \in Rels :
          (/\ sa_last'.event = "departed" /\ sa_last'.rel = r
           /\ relations[r].up
           /\ <<relations, accounts, sa_last>>' # <<relations, accounts, sa_last>>) =>
              /\ sa_last'.cmd # <<>> => relations[r].units = 1
              /\ relations'[r].up => accounts' = accounts]_vars

\* C31: a relation that is present with an empty data mapping is a case of
\* its own that fails nothing: a handler that reads the S3 connection info
\* and computes the status while the relation is so does not raise, and does
\* what it does for a relation with data, not what it does without relation.
C31_EmptyRelation ==
    (s3rel = EmptyRel /\ charm_last.event \in {"install", "update_status", "config_changed"})
        => charm_last.result \in CharmStatus

\* C38: whatever update_service calls were made, at most one monitor process
\* the charm started is alive, and the peer key pid is set exactly when such
\* a process is alive, and then names it.
C38_OneMonitor ==
    /\ Cardinality(procs) <= 1
    /\ pid # 0 <=> procs # {}
    /\ procs \subseteq {pid}

\* C39: a relation-changed of the push-gateway relation reconciles, with the
\* current S3 and push-gateway inputs and without error, only when the
\* requirer reports ready; when it is not ready the configuration file, the
\* environment and the running state of the service are as they were; either
\* way the status is computed afterwards.
C39_PushgatewayChanged ==
    [][last'.event = "pushgateway_changed" =>
          /\ (last'.upd.ran /\ last'.upd.fault = "none") =>
                 /\ last'.err = ""
                 /\ "restart" \in OpsOf(last')
                 /\ unit_status' = LevelStatus(last'.obs)
          /\ ~last'.upd.ran =>
                 /\ last'.err = ""
                 /\ last'.log = <<>>
                 /\ workload'.files = workload.files
                 /\ workload'.plan = workload.plan
                 /\ unit_status' = LevelStatus(last'.obs)]_vars

====
